---- MODULE Spec2Model ----
(***************************************************************************)
(* A model of keras/saving/experimental/saving_lib.py: the recursive       *)
(* save/load walk over a graph of trackables, the naming of container      *)
(* elements, the three stores (H5IOStore, NpzIOStore, DiskIOStore) and the *)
(* top-level operations save_model / load_model with the thread-local      *)
(* saving flag.                                                            *)
(***************************************************************************)
EXTENDS Integers, Sequences, FiniteSets, TLC

(***************************************************************************)
(* Bounds of the object graphs drawn in Init.                              *)
(***************************************************************************)
NumNodes == 3
MaxLen == 3

Nodes == 1..NumNodes
Root == 1

(***************************************************************************)
(* Program constants.                                                      *)
(***************************************************************************)
\* saving_lib.py:44-47
_CONFIG_FILENAME == "config.json"
_METADATA_FILENAME == "metadata.json"
_VARS_FNAME == "variables.weights"
_ASSETS_DIRNAME == "assets"

\* saving_lib.py:53-95
ATTR_SKIPLIST ==
    { "_callable_losses", "_captured_weight_regularizer",
      "_checkpoint_dependencies", "_deferred_dependencies", "_eager_losses",
      "_inbound_nodes", "_inbound_nodes_value", "_output_layers",
      "_input_layers", "_keras_api_names", "_keras_api_names_v1",
      "_name_based_restores", "_non_trainable_weights", "_outbound_nodes",
      "_outbound_nodes_value", "_saved_model_arg_spec",
      "_self_name_based_restores", "_self_saveable_object_factories",
      "_self_tracked_trackables",
      "_self_unconditional_checkpoint_dependencies",
      "_self_unconditional_deferred_dependencies",
      "_self_unconditional_dependency_names", "_tf_api_names",
      "_tf_api_names_v1", "_trainable_weights",
      "_unconditional_checkpoint_dependencies",
      "_unconditional_dependency_names", "_updates", "inbound_nodes",
      "submodules", "weights", "non_trainable_weights", "trainable_weights",
      "variables", "non_trainable_variables", "trainable_variables",
      "updates", "state_updates" }

(***************************************************************************)
(* Python values held by attributes and containers.                        *)
(*   none   the attribute does not exist on the object                    *)
(*   plain  a value that is neither a trackable nor a container            *)
(*   raise  a computed attribute whose getattr raises                      *)
(*   ref    a trackable (Layer, Optimizer, Metric, Loss), by identity      *)
(*   cont   a container; a dict has keys and vals, the others only vals    *)
(***************************************************************************)
NoneV == [k |-> "none"]
Plain(v) == [k |-> "plain", v |-> v]
RaiseV == [k |-> "raise"]
Ref(n) == [k |-> "ref", n |-> n]
Cont(kind, keys, vals) == [k |-> "cont", kind |-> kind, keys |-> keys, vals |-> vals]

\* The attribute names an object of the model can carry, in the order
\* dir() lists them (sorted by code point: "_" sorts before the letters).
AttrOrder == <<"__wrapped__", "a", "b", "layers", "vars", "weights">>
AttrNames == {AttrOrder[i] : i \in 1..Len(AttrOrder)}

\* Class names of the trackables.
ClassOrder == <<"Foo", "Bar", "Foo_1">>
ClassNames == {ClassOrder[i] : i \in 1..Len(ClassOrder)}

(***************************************************************************)
(* String helpers.                                                         *)
(***************************************************************************)
UpperChars == "ABCDEFGHIJKLMNOPQRSTUVWXYZ"
LowerChars == "abcdefghijklmnopqrstuvwxyz"
DigitChars == "0123456789"

CharAt(s, i) == SubSeq(s, i, i)
IsUpper(c) == \E i \in 1..Len(UpperChars) : CharAt(UpperChars, i) = c
IsLowerOrDigit(c) ==
    \/ \E i \in 1..Len(LowerChars) : CharAt(LowerChars, i) = c
    \/ \E i \in 1..Len(DigitChars) : CharAt(DigitChars, i) = c
ToLower(c) ==
    IF IsUpper(c)
    THEN CharAt(LowerChars, CHOOSE i \in 1..Len(UpperChars) : CharAt(UpperChars, i) = c)
    ELSE c

\* str.startswith
StartsWith(s, prefix) ==
    /\ Len(s) >= Len(prefix)
    /\ SubSeq(s, 1, Len(prefix)) = prefix

RECURSIVE SnakeFrom(_, _)
SnakeFrom(s, i) ==
    IF i > Len(s) THEN ""
    ELSE LET c == CharAt(s, i)
             sep == IF i > 1 /\ IsUpper(c) /\ IsLowerOrDigit(CharAt(s, i - 1))
                    THEN "_" ELSE ""
         IN  sep \o ToLower(c) \o SnakeFrom(s, i + 1)

\* generic_utils.to_snake_case: the lowercase/underscore form of a class name.
to_snake_case(name) == SnakeFrom(name, 1)

\* tf.io.gfile.join(inner_path, name) on slash-delimited paths, kept as the
\* sequence of their segments: joining onto "" yields the segment alone.
gfile_join(path, name) == IF path = <<>> THEN <<name>> ELSE Append(path, name)

(***************************************************************************)
(* The object graphs.                                                      *)
(***************************************************************************)
NoAttrs == [a \in AttrNames |-> NoneV]
RefOrNone(S) == {NoneV} \cup {Ref(n) : n \in S}

SeqsUpTo(S, len) == UNION {[1..l -> S] : l \in 0..len}

\* Class assignments: the root is a Foo, the others are drawn.
ClassIndex(c) == CHOOSE i \in 1..Len(ClassOrder) : ClassOrder[i] = c
ClassAssignments ==
    {f \in [Nodes -> ClassNames] :
        /\ f[Root] = "Foo"
        /\ \A n \in Nodes \ {Root, NumNodes} :
              ClassIndex(f[n]) <= ClassIndex(f[n + 1])}

AllFoo == [n \in Nodes |-> "Foo"]

\* Graphs of trackable-valued attributes: chains, diamonds, cycles,
\* self-references, and a trackable held only by a skipped attribute.
AttrGraphs ==
    {[cls |-> AllFoo,
      attr |-> [n \in Nodes |->
                  IF n = Root
                  THEN [NoAttrs EXCEPT !["a"] = ra, !["b"] = rb, !["weights"] = sk]
                  ELSE [NoAttrs EXCEPT !["a"] = oa[n]]]] :
        ra \in RefOrNone(Nodes), rb \in RefOrNone({NumNodes}),
        sk \in RefOrNone({NumNodes}),
        oa \in [Nodes \ {Root} -> RefOrNone(Nodes)]}

RootGraph(c, root_attrs) ==
    [cls |-> c, attr |-> [n \in Nodes |-> IF n = Root THEN root_attrs ELSE NoAttrs]]

\* Graphs whose root holds a list of trackables, of drawn classes.
RefSeqs == SeqsUpTo({Ref(n) : n \in Nodes}, MaxLen)
ListGraphs ==
    {RootGraph(c, [NoAttrs EXCEPT !["layers"] = Cont("list", <<>>, v)]) :
        c \in ClassAssignments, v \in RefSeqs}

\* Graphs whose root holds a dict with trackables as values.
DictKeys == <<"k1", "k2", "k3", "k4", "k5">>
DictGraphs ==
    {RootGraph(AllFoo, [NoAttrs EXCEPT !["layers"] =
          Cont("dict", [i \in 1..Len(v) |-> Plain(DictKeys[i])], v)]) :
        v \in RefSeqs}

\* Further shapes: the other container types (a set in either of the
\* orders its iteration can take), an iterable that is none of them, elements that are not trackables, two containers, a list element
\* that is also an attribute of the root, a trackable held only by a
\* double-underscore attribute, an attribute that raises when read (the
\* first of the root's, one between others of the root's, one of another
\* node's), and an attribute named like the group H5IOStore keeps the
\* variables in.
TwoRefs == <<Ref(2), Ref(NumNodes)>>
OtherGraphs ==
    {RootGraph(AllFoo, [NoAttrs EXCEPT !["layers"] = Cont(kind, <<>>, TwoRefs)]) :
        kind \in {"tuple", "set", "frozenset"}}
    \cup
    {RootGraph(AllFoo, [NoAttrs EXCEPT !["layers"] =
        Cont("set", <<>>, <<Ref(NumNodes), Ref(2)>>)])}
    \cup
    {RootGraph(AllFoo, [NoAttrs EXCEPT !["layers"] =
        Cont("list", <<>>, <<Plain("x"), Ref(2), Cont("list", <<>>, TwoRefs), Ref(2)>>)]),
     RootGraph(AllFoo, [NoAttrs EXCEPT !["a"] = Cont("list", <<>>, <<Ref(2)>>),
        !["layers"] = Cont("list", <<>>, TwoRefs)]),
     RootGraph(AllFoo, [NoAttrs EXCEPT !["a"] = Ref(2), !["layers"] =
        Cont("list", <<>>, <<Ref(2), Ref(NumNodes)>>)]),
     RootGraph(AllFoo, [NoAttrs EXCEPT !["__wrapped__"] = Ref(2), !["b"] = Ref(NumNodes)]),
     RootGraph(AllFoo, [NoAttrs EXCEPT !["a"] = RaiseV, !["b"] = Ref(2)]),
     RootGraph(AllFoo, [NoAttrs EXCEPT !["a"] = Ref(2), !["b"] = RaiseV,
        !["layers"] = Cont("list", <<>>, TwoRefs)]),
     [cls |-> AllFoo,
      attr |-> [n \in Nodes |->
                  IF n = Root THEN [NoAttrs EXCEPT !["a"] = Ref(2)]
                  ELSE IF n = 2
                  THEN [NoAttrs EXCEPT !["a"] = RaiseV, !["b"] = Ref(NumNodes)]
                  ELSE NoAttrs]],
     RootGraph(AllFoo, [NoAttrs EXCEPT !["a"] = Plain("x"), !["b"] = Ref(2)]),
     RootGraph(AllFoo, [NoAttrs EXCEPT !["vars"] = Ref(2)])}

Graphs == AttrGraphs \cup ListGraphs \cup DictGraphs \cup OtherGraphs

(***************************************************************************)
(* State.                                                                  *)
(***************************************************************************)
VARIABLES
    graph,          \* the object graph G; load_model rebuilds the same structure
    pc,             \* position of the running top-level operation
    op,             \* locals of the running (or last) top-level operation
    flag,           \* _SAVING_V3_ENABLED.value of this thread
    agenda,         \* pending _save_state/_load_state calls, next first
    visited,        \* visited_trackables
    trace,          \* history: every _save_state/_load_state invocation
    requests,       \* history: every store location requested
    reads,          \* history: every (node, attribute) passed to getattr
    weights_store,  \* the H5IOStore or NpzIOStore of the operation
    asset_store,    \* the DiskIOStore of the operation
    zip,            \* the archive file at the saved path
    loaded,         \* numeric state of the nodes of the loaded graph
    outcome         \* how each finished operation ended

vars == <<graph, pc, op, flag, agenda, visited, trace, requests, reads,
          weights_store, asset_store, zip, loaded, outcome>>

\* The numeric state a node of G holds, and the state of a fresh node.
NodeState(n) == 10 + n
FreshState == 0

(***************************************************************************)
(* The walk.  A pending call is the node, the logical path, and for each   *)
(* path segment whether attribute enumeration or container naming          *)
(* contributed it.                                                         *)
(***************************************************************************)
Call(n, path, src, via) == [node |-> n, path |-> path, src |-> src, via |-> via]

\* saving_lib._is_keras_trackable
_is_keras_trackable(obj) == obj.k = "ref"

\* isinstance(child_obj, (list, dict, tuple, set))
IsContainer(obj) == obj.k = "cont" /\ obj.kind \in {"list", "dict", "tuple", "set"}

\* `for trackable in container`: iterating a dict yields its keys.  The
\* elements of a set are kept in the order in which this set object is
\* iterated, which follows the hashes of the elements and so is another
\* for the set of another model (see Recreated).
PyIter(container) ==
    IF container.kind = "dict" THEN container.keys ELSE container.vals

\* dir(trackable): the names of the attributes the object has, sorted.
dir(n) == SelectSeq(AttrOrder, LAMBDA a : op.model[n][a] # NoneV)

\* A walk that does not consult visited_trackables.
AlreadyVisitedNever(trackable, visited_trackables) == FALSE

\* Lines 322-324 and 364-365: the node was handled earlier in this walk.
AlreadyVisited(trackable, visited_trackables) ==
    trackable \in visited_trackables

\* How a call was reached: from the top-level operation, from attribute
\* `attr` of `owner`, or as element number `pos` of the container held by
\* that attribute.
ViaRoot == [kind |-> "root", owner |-> 0, attr |-> "", pos |-> 0]
ViaAttr(n, a) == [kind |-> "attr", owner |-> n, attr |-> a, pos |-> 0]
ViaElem(n, a, i) == [kind |-> "elem", owner |-> n, attr |-> a, pos |-> i]

\* The loop of _save_state/_load_state over the attributes of node n,
\* suspended in a recursive call: it goes on at the i-th attribute read.
ViaLoop(n, i) == [kind |-> "loop", owner |-> n, attr |-> "", pos |-> i]

\* used_names after one more element of type-derived name `name`
\* (lines 411-415): a repeat is counted, a first occurrence is entered as 0.
BumpUsedNames(used_names, name) ==
    IF name \in DOMAIN used_names
    THEN [used_names EXCEPT ![name] = @ + 1]
    ELSE used_names @@ (name :> 0)

\* The suffix taken from the counter before it is incremented.
ElementNameStale(used_names, name) ==
    IF name \in DOMAIN used_names
    THEN name \o "_" \o ToString(used_names[name])
    ELSE name

\* The name under which the element is addressed (lines 410-415):
\* f"{name}_{used_names[name]}" for a repeat, the bare name otherwise.
ElementName(used_names, name) ==
    IF name \in DOMAIN used_names
    THEN name \o "_" \o ToString(used_names[name] + 1)
    ELSE name

\* _save_container_state: the _save_state calls made for the elements of
\* `container` from position i on, in order.
\* A container walk in which an element that is not a trackable takes a
\* name from the counter all the same.
RECURSIVE _save_container_state_counting(_, _, _, _, _, _, _)
_save_container_state_counting(container, i, used_names, inner_path, src, n, a) ==
    LET items == PyIter(container) IN
    IF i > Len(items) THEN <<>>
    ELSE LET trackable == items[i] IN
         IF _is_keras_trackable(trackable)
         THEN LET name == to_snake_case(graph.cls[trackable.n]) IN
              <<Call(trackable.n,
                     gfile_join(inner_path, ElementName(used_names, name)),
                     Append(src, "elem"), ViaElem(n, a, i))>>
              \o _save_container_state_counting(container, i + 1,
                     BumpUsedNames(used_names, name), inner_path, src, n, a)
         ELSE _save_container_state_counting(container, i + 1,
                     BumpUsedNames(used_names, to_snake_case(graph.cls[n])),
                     inner_path, src, n, a)

\* A container walk in which an element that occurred earlier in the
\* container does not advance the counter of its name.
RECURSIVE _save_container_state_unconsumed(_, _, _, _, _, _, _)
_save_container_state_unconsumed(container, i, used_names, inner_path, src, n, a) ==
    LET items == PyIter(container) IN
    IF i > Len(items) THEN <<>>
    ELSE LET trackable == items[i] IN
         IF _is_keras_trackable(trackable)
         THEN LET name == to_snake_case(graph.cls[trackable.n])
                  seen == \E j \in 1..(i - 1) : items[j] = trackable
              IN
              <<Call(trackable.n,
                     gfile_join(inner_path, ElementName(used_names, name)),
                     Append(src, "elem"), ViaElem(n, a, i))>>
              \o _save_container_state_unconsumed(container, i + 1,
                     IF seen THEN used_names ELSE BumpUsedNames(used_names, name),
                     inner_path, src, n, a)
         ELSE _save_container_state_unconsumed(container, i + 1, used_names,
                     inner_path, src, n, a)

RECURSIVE _save_container_state(_, _, _, _, _, _, _)
_save_container_state(container, i, used_names, inner_path, src, n, a) ==
    LET items == PyIter(container) IN
    IF i > Len(items) THEN <<>>
    ELSE LET trackable == items[i] IN
         IF _is_keras_trackable(trackable)
         THEN LET name == to_snake_case(graph.cls[trackable.n]) IN
              <<Call(trackable.n,
                     gfile_join(inner_path, ElementName(used_names, name)),
                     Append(src, "elem"), ViaElem(n, a, i))>>
              \o _save_container_state(container, i + 1,
                     BumpUsedNames(used_names, name), inner_path, src, n, a)
         ELSE _save_container_state(container, i + 1, used_names,
                     inner_path, src, n, a)

\* A load walk whose used_names does not outlive one element.
RECURSIVE _load_container_state_forgetful(_, _, _, _, _, _, _)
_load_container_state_forgetful(container, i, used_names, inner_path, src, n, a) ==
    LET items == PyIter(container) IN
    IF i > Len(items) THEN <<>>
    ELSE LET trackable == items[i] IN
         IF _is_keras_trackable(trackable)
         THEN LET name == to_snake_case(graph.cls[trackable.n]) IN
              <<Call(trackable.n,
                     gfile_join(inner_path, ElementName(used_names, name)),
                     Append(src, "elem"), ViaElem(n, a, i))>>
              \o _load_container_state_forgetful(container, i + 1,
                     used_names, inner_path, src, n, a)
         ELSE _load_container_state_forgetful(container, i + 1, used_names,
                     inner_path, src, n, a)

\* _load_container_state: the same for the load walk.
RECURSIVE _load_container_state(_, _, _, _, _, _, _)
_load_container_state(container, i, used_names, inner_path, src, n, a) ==
    LET items == PyIter(container) IN
    IF i > Len(items) THEN <<>>
    ELSE LET trackable == items[i] IN
         IF _is_keras_trackable(trackable)
         THEN LET name == to_snake_case(graph.cls[trackable.n]) IN
              <<Call(trackable.n,
                     gfile_join(inner_path, ElementName(used_names, name)),
                     Append(src, "elem"), ViaElem(n, a, i))>>
              \o _load_container_state(container, i + 1,
                     BumpUsedNames(used_names, name), inner_path, src, n, a)
         ELSE _load_container_state(container, i + 1, used_names,
                     inner_path, src, n, a)

\* A filter that knows the double underscore but not ATTR_SKIPLIST.
IsSkippedAttrDunderOnly(child_attr) == StartsWith(child_attr, "__")

\* Lines 336-337 and 376-377: the attribute is passed over without being read.
IsSkippedAttr(child_attr) ==
    StartsWith(child_attr, "__") \/ child_attr \in ATTR_SKIPLIST

\* The attributes of node n on which getattr is executed, in order.
AttrsRead(n) == SelectSeq(dir(n), LAMBDA a : ~IsSkippedAttr(a))

\* A walk that puts the calls of a node's loop behind the pending ones.
DescendLast(calls, pending) == pending \o calls

\* The calls a node's loop makes are recursive calls (lines 343-349,
\* 352-358, 383-389, 392-398): they and all they lead to run before
\* whatever was pending when the node was entered.
Descend(calls, pending) == calls \o pending

\* A handler that leaves the loop at the attribute that raised.
ExceptBreak(rest) == <<>>

\* `except Exception: continue` (lines 340-342, 380-382): getattr raised;
\* the loop goes on with the attributes that remain, whose calls are `rest`.
ExceptContinue(rest) == rest

\* The loop of _save_state over the attributes of node n (lines 335-358)
\* from the i-th attribute read on, as far as the first attribute that
\* makes calls: those calls, in order, and after them the rest of the loop,
\* which runs only when they have returned.
RECURSIVE SaveChildren(_, _, _, _)
SaveChildren(n, i, inner_path, src) ==
    LET attrs == AttrsRead(n) IN
    IF i > Len(attrs) THEN <<>>
    ELSE LET child_attr == attrs[i]
             child_obj == op.model[n][child_attr]
             here ==
                 IF _is_keras_trackable(child_obj)
                 THEN <<Call(child_obj.n, gfile_join(inner_path, child_attr),
                             Append(src, "attr"), ViaAttr(n, child_attr))>>
                 ELSE IF IsContainer(child_obj)
                 THEN _save_container_state(child_obj, 1, <<>>,
                          gfile_join(inner_path, child_attr),
                          Append(src, "attr"), n, child_attr)
                 ELSE <<>>
         IN  IF child_obj.k = "raise"
             THEN ExceptContinue(SaveChildren(n, i + 1, inner_path, src))
             ELSE IF here = <<>>
             THEN SaveChildren(n, i + 1, inner_path, src)
             ELSE here \o <<Call(n, inner_path, src, ViaLoop(n, i + 1))>>

\* The loop of _load_state over the attributes of node n (lines 375-398).
RECURSIVE LoadChildren(_, _, _, _)
LoadChildren(n, i, inner_path, src) ==
    LET attrs == AttrsRead(n) IN
    IF i > Len(attrs) THEN <<>>
    ELSE LET child_attr == attrs[i]
             child_obj == op.model[n][child_attr]
             here ==
                 IF _is_keras_trackable(child_obj)
                 THEN <<Call(child_obj.n, gfile_join(inner_path, child_attr),
                             Append(src, "attr"), ViaAttr(n, child_attr))>>
                 ELSE IF IsContainer(child_obj)
                 THEN _load_container_state(child_obj, 1, <<>>,
                          gfile_join(inner_path, child_attr),
                          Append(src, "attr"), n, child_attr)
                 ELSE <<>>
         IN  IF child_obj.k = "raise"
             THEN ExceptContinue(LoadChildren(n, i + 1, inner_path, src))
             ELSE IF here = <<>>
             THEN LoadChildren(n, i + 1, inner_path, src)
             ELSE here \o <<Call(n, inner_path, src, ViaLoop(n, i + 1))>>

\* The reads of getattr (lines 339, 379) that walk w makes on node n when
\* its loop runs from the i-th attribute read on and makes `calls`: the
\* attributes up to the one that made the calls, or all that remain.
LoopReads(w, n, i, calls) ==
    LET attrs == AttrsRead(n)
        last == IF calls # <<>> /\ calls[Len(calls)].via = ViaLoop(n, calls[Len(calls)].via.pos)
                THEN calls[Len(calls)].via.pos - 1
                ELSE Len(attrs)
    IN  {[walk |-> w, node |-> n, attr |-> attrs[k]] : k \in i..last}

\* The walk between two invocations: while what is pending first is a
\* suspended loop, the loop goes on, reading attributes, until it makes a
\* call or ends.  Yields what is pending then and the reads made so far.
RECURSIVE Resume(_, _, _)
Resume(w, pending, read) ==
    IF pending = <<>> \/ Head(pending).via.kind # "loop"
    THEN [agenda |-> pending, reads |-> read]
    ELSE LET c == Head(pending)
             calls == IF w = "save"
                      THEN SaveChildren(c.node, c.via.pos, c.path, c.src)
                      ELSE LoadChildren(c.node, c.via.pos, c.path, c.src)
         IN  Resume(w, Descend(calls, Tail(pending)),
                    read \cup LoopReads(w, c.node, c.via.pos, calls))

(***************************************************************************)
(* The stores.  A store operation yields the exception it raises ("none"   *)
(* when it returns), the store afterwards, and the location it returns.    *)
(***************************************************************************)
Prefixes(path) == {SubSeq(path, 1, l) : l \in 1..Len(path)}

\* An HDF5 file: its groups (by path from the root group) and what the
\* hooks wrote into them.
EmptyH5 == [groups |-> {}, dsets |-> <<>>]

\* h5py Group.create_group(name) under the group at `base`: a ValueError
\* when the name exists, else the group and its missing ancestors are made.
H5CanCreate(h5_file, path) == path \notin h5_file.groups
H5CreateGroup(h5_file, path) ==
    [h5_file EXCEPT !.groups = @ \cup Prefixes(path)]

\* H5IOStore.__init__ on an archive member or a file.
H5IOStore(mode, h5_file) ==
    [cls |-> "H5IOStore", mode |-> mode, h5_file |-> h5_file, closed |-> FALSE]

\* H5IOStore.make (lines 522-525): the "vars" group of the group at path.
H5Make(store, path) ==
    IF path = <<>>
    THEN IF H5CanCreate(store.h5_file, <<"vars">>)
         THEN [exc |-> "none", loc |-> <<"vars">>,
               store |-> [store EXCEPT !.h5_file = H5CreateGroup(@, <<"vars">>)]]
         ELSE [exc |-> "ValueError", loc |-> <<>>, store |-> store]
    ELSE IF H5CanCreate(store.h5_file, path)
         THEN [exc |-> "none", loc |-> Append(path, "vars"),
               store |-> [store EXCEPT !.h5_file =
                            H5CreateGroup(@, Append(path, "vars"))]]
         ELSE [exc |-> "ValueError", loc |-> <<>>, store |-> store]

\* A mapping of variables, as a hook writes it and as a load hook receives
\* it: the set of the values it holds.  `{}` is the mapping that holds none.
Contents(vs) == [t |-> "dict", v |-> vs]
EmptyMapping == Contents({})

H5Read(h5_file, group) ==
    IF group \in DOMAIN h5_file.dsets THEN Contents(h5_file.dsets[group])
    ELSE Contents({})

\* H5IOStore.get (lines 527-532).
H5Get(store, path) ==
    IF path = <<>>
    THEN IF <<"vars">> \in store.h5_file.groups
         THEN [exc |-> "none", value |-> H5Read(store.h5_file, <<"vars">>)]
         ELSE [exc |-> "KeyError", value |-> EmptyMapping]
    ELSE IF path \in store.h5_file.groups
            /\ Append(path, "vars") \in store.h5_file.groups
         THEN [exc |-> "none", value |-> H5Read(store.h5_file, Append(path, "vars"))]
         ELSE [exc |-> "none", value |-> EmptyMapping]

\* A hook writing value v into the location H5Make returned.
H5Write(store, loc, v) ==
    [store EXCEPT !.h5_file.dsets = (loc :> {v}) @@ @]

\* NpzIOStore: contents maps a path (the root under "__root__") to what was
\* written there.  np.savez stores each dict as a 0-d object array, and
\* np.load hands those arrays back.
NpzRootKey == <<"__root__">>
NpzKey(path) == IF path = <<>> THEN NpzRootKey ELSE path
NdArray0d(v) == [t |-> "ndarray", v |-> v]

NpzIOStore(mode, contents) ==
    [cls |-> "NpzIOStore", mode |-> mode, contents |-> contents, closed |-> FALSE]

\* NpzIOStore.make (lines 564-569): a fresh dict under the key, replacing
\* whatever the key held.
NpzMake(store, path) ==
    [exc |-> "none", loc |-> NpzKey(path),
     store |-> [store EXCEPT !.contents =
                  (NpzKey(path) :> Contents({})) @@ @]]

NpzWrite(store, loc, v) ==
    [store EXCEPT !.contents = (loc :> Contents({v})) @@ @]

\* np.savez / np.load of the contents.
NpzSaved(contents) == [key \in DOMAIN contents |-> NdArray0d(contents[key].v)]

\* dict(x): a copy of a mapping; a 0-d array is not iterable (TypeError).
PyDict(x) ==
    IF x.t = "dict" THEN [exc |-> "none", value |-> x]
    ELSE [exc |-> "TypeError", value |-> EmptyMapping]

\* ndarray.tolist() of a 0-d object array: the object it holds.
ToList(x) == Contents(x.v)

\* NpzIOStore.get (lines 571-578).
NpzGet(store, path) ==
    IF path = <<>>
    THEN IF NpzRootKey \in DOMAIN store.contents
         THEN PyDict(store.contents[NpzRootKey])
         ELSE [exc |-> "none", value |-> EmptyMapping]
    ELSE IF path \in DOMAIN store.contents
         THEN [exc |-> "none", value |-> ToList(store.contents[path])]
         ELSE [exc |-> "none", value |-> EmptyMapping]

\* weights_store.make / weights_store.get, by the class of the store.
WeightsMake(store, path) ==
    IF store.cls = "H5IOStore" THEN H5Make(store, path) ELSE NpzMake(store, path)
WeightsWrite(store, loc, v) ==
    IF store.cls = "H5IOStore" THEN H5Write(store, loc, v) ELSE NpzWrite(store, loc, v)
WeightsGet(store, path) ==
    IF store.cls = "H5IOStore" THEN H5Get(store, path) ELSE NpzGet(store, path)

\* DiskIOStore (lines 456-471).  made_tmp: self.tmp_dir is a directory the
\* store made with _get_temp_dir (else it is None); tmp_dir: that directory
\* exists on disk; working_dir: "tmp" or the caller's root_path; dirs and
\* files: the directories and files below self.tmp_dir.
NoStore == [cls |-> "None"]
DiskIOStore(archive, mode) ==
    LET made == archive \/ mode # "r" IN
    [cls |-> "DiskIOStore", mode |-> mode, archive |-> archive,
     made_tmp |-> made, tmp_dir |-> made,
     working_dir |-> IF made THEN "tmp" ELSE "root",
     dirs |-> {}, files |-> {}, closed |-> FALSE]

\* DiskIOStore.make (lines 473-479).
DiskMake(store, path) ==
    IF path = <<>> THEN store
    ELSE [store EXCEPT !.dirs = @ \cup Prefixes(path)]

\* A _save_assets hook writing the file `name` into the directory make
\* returned for `path`.
DiskWrite(store, path, name) ==
    [store EXCEPT !.files = @ \cup {Append(path, name)}]

\* A directory as get returns it: the base it lies under and the path
\* below the base; None when get returns None.
DirAt(base, path) == [t |-> "dir", base |-> base, path |-> path]
PyNone == [t |-> "None"]

\* DiskIOStore.get (lines 481-487): both branches go through self.tmp_dir;
\* joining a path onto None is a TypeError.
DiskGet(store, path) ==
    IF path = <<>>
    THEN [exc |-> "none",
          value |-> IF store.made_tmp THEN DirAt("tmp", <<>>) ELSE PyNone]
    ELSE IF ~store.made_tmp
    THEN [exc |-> "TypeError", value |-> PyNone]
    ELSE IF path \in store.dirs
    THEN [exc |-> "none", value |-> DirAt("tmp", path)]
    ELSE [exc |-> "none", value |-> PyNone]

\* A slash-delimited name from its segments.
RECURSIVE JoinPath(_)
JoinPath(segs) ==
    IF Len(segs) = 1 THEN segs[1]
    ELSE segs[1] \o "/" \o JoinPath(Tail(segs))

\* _write_to_zip_recursively (lines 307-316) on the temporary directory:
\* one member per file, named by its path below root_path; a directory is
\* walked, never written.
_write_to_zip_recursively(store) ==
    {JoinPath(<<_ASSETS_DIRNAME>> \o f) : f \in store.files}

\* The files below directory `folder`, and the entries listdir finds in it.
FilesUnder(folder, files) ==
    {f \in files : Len(f) > Len(folder) /\ SubSeq(f, 1, Len(folder)) = folder}
Entries(folder, files) ==
    {SubSeq(f, 1, Len(folder) + 1) : f \in FilesUnder(folder, files)}

\* _write_to_zip_recursively on `folder` with one archive.write raising: the
\* sets of files that may have been written before it.  listdir gives the
\* entries in no particular order; the entries before the one the failure
\* is in were written whole.
RECURSIVE InterruptedWrites(_, _)
InterruptedWrites(folder, files) ==
    LET entries == Entries(folder, files)
        whole(D) == UNION {IF d \in files THEN {d} ELSE FilesUnder(d, files) : d \in D}
    IN  UNION {{whole(D) \cup part :
                   D \in SUBSET (entries \ {e}),
                   part \in IF e \in files THEN {{}}
                            ELSE InterruptedWrites(e, files)} :
               e \in entries}

\* The _save_assets hook of a node (line 330): nodes of class Bar keep a
\* file and write it into the directory they are handed; the others write
\* nothing.  Without an asset store the hook is not called.
AssetFile == "vocab.txt"
WritesAssets(n) == graph.cls[n] = "Bar"
SaveAssets(store, n, path) ==
    IF store.cls = "None" THEN store
    ELSE IF WritesAssets(n) THEN DiskWrite(DiskMake(store, path), path, AssetFile)
    ELSE DiskMake(store, path)

\* DiskIOStore.close (lines 489-495) when nothing fails: the staged files
\* have gone into the archive and the temporary directory is removed.
DiskClose(store) == [store EXCEPT !.tmp_dir = FALSE, !.closed = TRUE]

(***************************************************************************)
(* The top-level operations.                                               *)
(***************************************************************************)
\* A test of the extension that accepts every filepath.
EndsWithAnything(s, suffix) == TRUE

\* str.endswith
EndsWith(s, suffix) ==
    /\ Len(s) >= Len(suffix)
    /\ SubSeq(s, Len(s) - Len(suffix) + 1, Len(s)) = suffix

\* Arguments the operations are called with.
Filepaths == {"model.keras", "model.bin"}
WeightsFormats == {"h5", "npz", "tf"}

\* The archive file: whether it exists, its members, and the content of the
\* weights member.
NoZip == [exists |-> FALSE, bad_zip_file |-> FALSE, members |-> {}, weights |-> <<>>]

\* The file when ZipFile.close() raised on it: nothing closed the write
\* handle of the weights member, so either the file was left without a
\* central directory and is no archive, or, the handle having been
\* released since, it is an archive with that member in it, empty.
UnclosedMember(file, name) ==
    {[file EXCEPT !.bad_zip_file = TRUE, !.members = {}],
     [file EXCEPT !.members = @ \cup {name}]}

\* The arguments and locals of an operation, whether it emitted the
\* warning of lines 130-137, and `model`: the attributes of the nodes of
\* the model it walks.
OpRecord(name, filepath, weights_format, saved, built, warned, model) ==
    [name |-> name, filepath |-> filepath, weights_format |-> weights_format,
     saving_v3_enabled_value |-> saved,
     built |-> built, warned |-> warned, model |-> model]

NoOp == OpRecord("none", "", "", FALSE, TRUE, FALSE, [n \in Nodes |-> NoAttrs])

\* The attributes that hold a set, and the orders in which a model built
\* anew may iterate them: one ranking of the positions for each.
SetSlots(attr) ==
    {x \in Nodes \X AttrNames :
        attr[x[1]][x[2]].k = "cont" /\ attr[x[1]][x[2]].kind = "set"}
SetOrders(attr) == [SetSlots(attr) -> Permutations(1..MaxLen)]

\* The elements in the order of their ranks.
Reorder(vals, rank) ==
    [k \in 1..Len(vals) |->
        vals[CHOOSE i \in 1..Len(vals) :
                Cardinality({j \in 1..Len(vals) : rank[j] < rank[i]}) = k - 1]]

\* The model that deserialize_keras_object (line 214) builds from the
\* config, node for node the saved one, or that a caller hands to
\* load_weights_only: the same attributes and elements, each set iterated
\* in an order of its own.
Recreated(attr, order) ==
    [n \in Nodes |-> [a \in AttrNames |->
        IF <<n, a>> \in DOMAIN order
        THEN [attr[n][a] EXCEPT !.vals = Reorder(@, order[<<n, a>>])]
        ELSE attr[n][a]]]

\* The file a save left at `filepath` is there to be opened.
FileExists(filepath) ==
    /\ zip.exists
    /\ outcome # <<>>
    /\ outcome[1].filepath = filepath

RootCall == Call(Root, <<>>, <<>>, ViaRoot)

Invocation(c, hit) ==
    [node |-> c.node, path |-> c.path, src |-> c.src, via |-> c.via, hit |-> hit]
Request(store, c) == [store |-> store, node |-> c.node, path |-> c.path]

\* One finished operation: its name and arguments, whether the arguments
\* and the installation passed the checks made of them, the exception it
\* raised ("none" when it returned), whether a collaborator was made to
\* fail, and the flag before and after the call.
Outcome(name, filepath, weights_format, usage, exc, fault, before, after) ==
    [name |-> name, filepath |-> filepath, weights_format |-> weights_format,
     usage |-> usage, exc |-> exc, fault |-> fault,
     before |-> before, after |-> after]

TypeOK ==
    /\ graph \in Graphs
    /\ pc \in {"idle", "save_walk", "load_walk"}
    /\ flag \in BOOLEAN
    /\ visited \subseteq Nodes
    /\ Len(outcome) <= 2

Init ==
    /\ graph \in Graphs
    /\ pc = "idle"
    /\ op = NoOp
    /\ flag = FALSE
    /\ agenda = <<>>
    /\ visited = {}
    /\ trace = [save |-> <<>>, load |-> <<>>]
    /\ requests = [save |-> <<>>, load |-> <<>>]
    /\ reads = {}
    /\ weights_store = NoStore
    /\ asset_store = NoStore
    /\ zip = NoZip
    /\ loaded = [n \in Nodes |-> FreshState]
    /\ outcome = <<>>

\* save_model raising before the walk starts: `after` is the flag it leaves.
SaveModelRaises(filepath, weights_format, usage, exc, fault, after, zip_after) ==
    /\ pc' = "idle"
    /\ flag' = after
    /\ zip' = zip_after
    /\ outcome' = Append(outcome,
          Outcome("save_model", filepath, weights_format, usage, exc, fault,
                  flag, after))
    /\ UNCHANGED <<graph, agenda, visited, trace, requests, reads,
                   weights_store, asset_store, loaded>>

\* save_model, lines 122-180: up to the call of _save_state on the model.
\* `fault` names the collaborator made to fail: the config serializer
\* (line 141) or the opening of the archive (line 150).
SaveModelBegin(filepath, weights_format, h5py, built, fault) ==
    /\ pc = "idle"
    /\ outcome = <<>>
    /\ LET meta == {_METADATA_FILENAME, _CONFIG_FILENAME}
           created == [exists |-> TRUE, bad_zip_file |-> FALSE, members |-> meta,
                       weights |-> <<>>]
           early == OpRecord("save_model", filepath, weights_format, flag,
                             built, FALSE, graph.attr)
           late == [early EXCEPT !.warned = ~built]
       IN
       IF ~EndsWith(filepath, ".keras")
       THEN /\ SaveModelRaises(filepath, weights_format, FALSE, "ValueError",
                               FALSE, flag, zip)
            /\ op' = early
       ELSE IF weights_format = "h5" /\ ~h5py
       THEN /\ SaveModelRaises(filepath, weights_format, FALSE, "ImportError",
                               FALSE, flag, zip)
            /\ op' = early
       ELSE IF fault = "serialize"
       THEN \* line 141 is outside the try: the flag stays as line 139 set it
            /\ SaveModelRaises(filepath, weights_format, TRUE, "SerializeError",
                               TRUE, TRUE, zip)
            /\ op' = late
       ELSE IF fault = "zipfile"
       THEN /\ SaveModelRaises(filepath, weights_format, TRUE, "OSError",
                               TRUE, flag, zip)
            /\ op' = late
       ELSE IF weights_format \notin {"h5", "npz"}
       THEN /\ SaveModelRaises(filepath, weights_format, FALSE, "ValueError",
                               FALSE, flag, created)
            /\ op' = late
       ELSE /\ pc' = "save_walk"
            /\ op' = late
            /\ flag' = TRUE
            /\ zip' = created
            /\ weights_store' = IF weights_format = "h5"
                                THEN H5IOStore("w", EmptyH5)
                                ELSE NpzIOStore("w", <<>>)
            /\ asset_store' = DiskIOStore(TRUE, "w")
            /\ agenda' = <<RootCall>>
            /\ visited' = {}
            /\ UNCHANGED <<graph, trace, requests, reads, loaded, outcome>>

\* An exception leaving the walk of save_model or load_model: the `with`
\* closes the archive, the `finally` restores the flag; the stores stay
\* as they are.
WalkRaises(exc, fault) ==
    /\ pc' = "idle"
    /\ flag' = op.saving_v3_enabled_value
    /\ agenda' = <<>>
    /\ outcome' = Append(outcome,
          Outcome(op.name, op.filepath, op.weights_format, TRUE, exc, fault,
                  op.saving_v3_enabled_value, op.saving_v3_enabled_value))

\* One invocation of _save_state (lines 319-358), and the walk up to the
\* next invocation: the calls a loop makes are put in front of the pending
\* ones, and an attribute is read only when the calls of the attributes
\* before it have returned.  `hook_raises`: the node's
\* _save_own_variables fails.
SaveState(hook_raises) ==
    /\ pc = "save_walk"
    /\ agenda # <<>>
    /\ LET c == Head(agenda)
           trackable == c.node
           made == WeightsMake(weights_store, c.path)
       IN
       IF AlreadyVisited(trackable, visited)
       THEN /\ ~hook_raises
            /\ LET next == Resume("save", Tail(agenda), reads) IN
               /\ agenda' = next.agenda
               /\ reads' = next.reads
            /\ trace' = [trace EXCEPT !.save = Append(@, Invocation(c, TRUE))]
            /\ UNCHANGED <<graph, pc, op, flag, visited, requests,
                           weights_store, asset_store, zip, loaded, outcome>>
       ELSE IF made.exc # "none"
       THEN /\ ~hook_raises
            /\ WalkRaises(made.exc, FALSE)
            /\ trace' = [trace EXCEPT !.save = Append(@, Invocation(c, FALSE))]
            /\ requests' = [requests EXCEPT !.save = Append(@, Request("weights", c))]
            /\ UNCHANGED <<graph, op, visited, reads, weights_store,
                           asset_store, zip, loaded>>
       ELSE IF hook_raises
       THEN /\ WalkRaises("HookError", TRUE)
            /\ trace' = [trace EXCEPT !.save = Append(@, Invocation(c, FALSE))]
            /\ requests' = [requests EXCEPT !.save = Append(@, Request("weights", c))]
            /\ weights_store' = made.store
            /\ UNCHANGED <<graph, op, visited, reads, asset_store, zip, loaded>>
       ELSE /\ trace' = [trace EXCEPT !.save = Append(@, Invocation(c, FALSE))]
            /\ requests' = [requests EXCEPT !.save =
                  @ \o IF asset_store.cls = "None"
                       THEN <<Request("weights", c)>>
                       ELSE <<Request("weights", c), Request("assets", c)>>]
            /\ weights_store' = WeightsWrite(made.store, made.loc, NodeState(trackable))
            /\ asset_store' = SaveAssets(asset_store, trackable, c.path)
            /\ visited' = visited \cup {trackable}
            /\ LET loop == Call(trackable, c.path, c.src, ViaLoop(trackable, 1))
                   next == Resume("save", Descend(<<loop>>, Tail(agenda)), reads)
               IN  /\ agenda' = next.agenda
                   /\ reads' = next.reads
            /\ UNCHANGED <<graph, pc, op, flag, zip, loaded, outcome>>

\* The end of save_model (lines 181-187): both stores are closed, the
\* weights become a member of the archive, the flag is restored.
\* `close_raises`: weights_store.close() fails in writing the contents
\* out.  H5IOStore.close has no handle open on the archive then, and the
\* exception leaves save_model.  NpzIOStore.close (lines 580-589) has
\* opened the member for writing and np.savez raises before the handle is
\* closed: leaving the `with` of line 150 calls ZipFile.close(), which
\* raises ValueError because of the open handle, and that is the exception
\* that leaves save_model.
SaveModelEnd(close_raises) ==
    /\ pc = "save_walk"
    /\ op.name = "save_model"
    /\ agenda = <<>>
    /\ IF close_raises /\ weights_store.cls = "NpzIOStore"
       THEN /\ WalkRaises("ValueError", TRUE)
            /\ zip' \in UnclosedMember(zip, _VARS_FNAME \o ".npz")
            /\ UNCHANGED <<graph, op, visited, trace, requests, reads,
                           weights_store, asset_store, loaded>>
       ELSE IF close_raises
       THEN /\ WalkRaises("CloseError", TRUE)
            /\ UNCHANGED <<graph, op, visited, trace, requests, reads,
                           weights_store, asset_store, zip, loaded>>
       ELSE /\ pc' = "idle"
            /\ weights_store' = [weights_store EXCEPT !.closed = TRUE]
            /\ zip' = IF weights_store.cls = "H5IOStore"
                      THEN [zip EXCEPT !.members = @ \cup {_VARS_FNAME \o ".h5"}
                                          \cup _write_to_zip_recursively(asset_store),
                                       !.weights = weights_store.h5_file]
                      ELSE [zip EXCEPT !.members = @ \cup {_VARS_FNAME \o ".npz"}
                                          \cup _write_to_zip_recursively(asset_store),
                                       !.weights = NpzSaved(weights_store.contents)]
            /\ asset_store' = DiskClose(asset_store)
            /\ flag' = op.saving_v3_enabled_value
            /\ outcome' = Append(outcome,
                  Outcome("save_model", op.filepath, op.weights_format, TRUE,
                          "none", FALSE, op.saving_v3_enabled_value,
                          op.saving_v3_enabled_value))
            /\ UNCHANGED <<graph, op, agenda, visited, trace, requests, reads, loaded>>

\* load_model raising before the walk starts; everything from line 201 on
\* is inside the try, so the flag is back at its value before the call.
LoadModelRaises(filepath, usage, exc, fault, fresh) ==
    /\ pc' = "idle"
    /\ loaded' = IF fresh THEN [n \in Nodes |-> FreshState] ELSE loaded
    /\ outcome' = Append(outcome,
          Outcome("load_model", filepath, "", usage, exc, fault, flag, flag))
    /\ UNCHANGED <<graph, op, flag, agenda, visited, trace, requests, reads,
                   weights_store, asset_store, zip>>

\* load_model, lines 192-241: up to the call of _load_state on the model
\* rebuilt from the config.  `fault`: deserialize_keras_object fails.
\* With h5py missing the name h5py is None, and H5IOStore.__init__ fails at
\* h5py.File (line 518), after the member was opened.
\* The model is loaded after a save_model in which no collaborator failed.
LoadModelBegin(filepath, h5py, fault) ==
    /\ pc = "idle"
    /\ Len(outcome) = 1
    /\ ~outcome[1].fault
    /\ IF ~EndsWith(filepath, ".keras")
       THEN LoadModelRaises(filepath, FALSE, "ValueError", FALSE, FALSE)
       ELSE IF ~FileExists(filepath)
       THEN LoadModelRaises(filepath, TRUE, "FileNotFoundError", FALSE, FALSE)
       ELSE IF fault = "deserialize"
       THEN LoadModelRaises(filepath, TRUE, "DeserializeError", TRUE, FALSE)
       ELSE IF /\ (_VARS_FNAME \o ".h5") \notin zip.members
               /\ (_VARS_FNAME \o ".npz") \notin zip.members
       THEN LoadModelRaises(filepath, TRUE, "ValueError", FALSE, TRUE)
       ELSE IF (_VARS_FNAME \o ".h5") \in zip.members /\ ~h5py
       THEN LoadModelRaises(filepath, FALSE, "AttributeError", FALSE, TRUE)
       ELSE /\ pc' = "load_walk"
            /\ \E order \in SetOrders(graph.attr) :
                  op' = OpRecord("load_model", filepath, "", flag, TRUE, FALSE,
                                 Recreated(graph.attr, order))
            /\ flag' = TRUE
            /\ loaded' = [n \in Nodes |-> FreshState]
            /\ weights_store' =
                  IF (_VARS_FNAME \o ".h5") \in zip.members
                  THEN H5IOStore("r", zip.weights)
                  ELSE NpzIOStore("r", zip.weights)
            /\ asset_store' = IF _ASSETS_DIRNAME \in zip.members
                              THEN DiskIOStore(TRUE, "r") ELSE NoStore
            /\ agenda' = <<RootCall>>
            /\ visited' = {}
            /\ UNCHANGED <<graph, trace, requests, reads, zip, outcome>>

\* What _load_own_variables leaves in the node: the value it is handed,
\* or the node's own when it is handed the empty mapping.
LoadOwnVariables(old, store) ==
    IF store.v = {} THEN old ELSE CHOOSE x \in store.v : TRUE

\* One invocation of _load_state (lines 361-398), and the walk up to the
\* next invocation.  `hook_raises`: the
\* node's _load_own_variables fails.
LoadState(hook_raises) ==
    /\ pc = "load_walk"
    /\ agenda # <<>>
    /\ LET c == Head(agenda)
           trackable == c.node
           got == WeightsGet(weights_store, c.path)
           asked == IF asset_store.cls = "None"
                    THEN <<Request("weights", c)>>
                    ELSE <<Request("weights", c), Request("assets", c)>>
       IN
       IF AlreadyVisited(trackable, visited)
       THEN /\ ~hook_raises
            /\ LET next == Resume("load", Tail(agenda), reads) IN
               /\ agenda' = next.agenda
               /\ reads' = next.reads
            /\ trace' = [trace EXCEPT !.load = Append(@, Invocation(c, TRUE))]
            /\ UNCHANGED <<graph, pc, op, flag, visited, requests,
                           weights_store, asset_store, zip, loaded, outcome>>
       ELSE IF got.exc # "none"
       THEN /\ ~hook_raises
            /\ WalkRaises(got.exc, FALSE)
            /\ trace' = [trace EXCEPT !.load = Append(@, Invocation(c, FALSE))]
            /\ requests' = [requests EXCEPT !.load = Append(@, Request("weights", c))]
            /\ UNCHANGED <<graph, op, visited, reads, weights_store,
                           asset_store, zip, loaded>>
       ELSE IF hook_raises
       THEN /\ WalkRaises("HookError", TRUE)
            /\ trace' = [trace EXCEPT !.load = Append(@, Invocation(c, FALSE))]
            /\ requests' = [requests EXCEPT !.load = Append(@, Request("weights", c))]
            /\ UNCHANGED <<graph, op, visited, reads, weights_store,
                           asset_store, zip, loaded>>
       ELSE /\ trace' = [trace EXCEPT !.load = Append(@, Invocation(c, FALSE))]
            /\ requests' = [requests EXCEPT !.load = @ \o asked]
            /\ loaded' = [loaded EXCEPT ![trackable] = LoadOwnVariables(@, got.value)]
            /\ visited' = visited \cup {trackable}
            /\ LET loop == Call(trackable, c.path, c.src, ViaLoop(trackable, 1))
                   next == Resume("load", Descend(<<loop>>, Tail(agenda)), reads)
               IN  /\ agenda' = next.agenda
                   /\ reads' = next.reads
            /\ UNCHANGED <<graph, pc, op, flag, weights_store, asset_store,
                           zip, outcome>>

\* The end of load_model (lines 242-251).  `close_raises`:
\* weights_store.close() fails.
LoadModelEnd(close_raises) ==
    /\ pc = "load_walk"
    /\ op.name = "load_model"
    /\ agenda = <<>>
    /\ IF close_raises
       THEN /\ WalkRaises("CloseError", TRUE)
            /\ UNCHANGED <<graph, op, visited, trace, requests, reads,
                           weights_store, asset_store, zip, loaded>>
       ELSE /\ pc' = "idle"
            /\ weights_store' = [weights_store EXCEPT !.closed = TRUE]
            /\ asset_store' = IF asset_store.cls = "None" THEN asset_store
                              ELSE DiskClose(asset_store)
            /\ flag' = op.saving_v3_enabled_value
            /\ outcome' = Append(outcome,
                  Outcome("load_model", op.filepath, op.weights_format, TRUE,
                          "none", FALSE, op.saving_v3_enabled_value,
                          op.saving_v3_enabled_value))
            /\ UNCHANGED <<graph, op, agenda, visited, trace, requests, reads,
                           zip, loaded>>

Next ==
    \/ \E filepath \in Filepaths, weights_format \in WeightsFormats,
          h5py \in BOOLEAN, fault \in {"none", "serialize", "zipfile"} :
          SaveModelBegin(filepath, weights_format, h5py, TRUE, fault)
    \/ \E hook_raises \in BOOLEAN : SaveState(hook_raises)
    \/ \E close_raises \in BOOLEAN : SaveModelEnd(close_raises)
    \/ \E filepath \in Filepaths, h5py \in BOOLEAN,
          fault \in {"none", "deserialize"} :
          LoadModelBegin(filepath, h5py, fault)
    \/ \E hook_raises \in BOOLEAN : LoadState(hook_raises)
    \/ \E close_raises \in BOOLEAN : LoadModelEnd(close_raises)

Spec == Init /\ [][Next]_vars

(***************************************************************************)
(* The four top-level operations together: a save by save_model or         *)
(* save_weights_only, then a load by load_model or load_weights_only, on a *)
(* few graphs, with every kind of filepath and a model that may not be     *)
(* built.                                                                  *)
(***************************************************************************)
OpsFilepaths == Filepaths \cup {"model.weights.h5"}

OpsGraphs ==
    {RootGraph(AllFoo, NoAttrs),
     RootGraph(AllFoo, [NoAttrs EXCEPT !["a"] = Ref(2)]),
     RootGraph(AllFoo, [NoAttrs EXCEPT !["layers"] = Cont("list", <<>>, TwoRefs)])}

InitOps ==
    /\ graph \in OpsGraphs
    /\ pc = "idle"
    /\ op = NoOp
    /\ flag = FALSE
    /\ agenda = <<>>
    /\ visited = {}
    /\ trace = [save |-> <<>>, load |-> <<>>]
    /\ requests = [save |-> <<>>, load |-> <<>>]
    /\ reads = {}
    /\ weights_store = NoStore
    /\ asset_store = NoStore
    /\ zip = NoZip
    /\ loaded = [n \in Nodes |-> FreshState]
    /\ outcome = <<>>

\* save_weights_only or load_weights_only raising before the walk starts.
\* Neither touches the flag.
WeightsOnlyRaises(name, filepath, usage, exc) ==
    /\ pc' = "idle"
    /\ op' = OpRecord(name, filepath, "h5", flag, TRUE, FALSE, graph.attr)
    /\ outcome' = Append(outcome,
          Outcome(name, filepath, "h5", usage, exc, FALSE, flag, flag))
    /\ UNCHANGED <<graph, flag, agenda, visited, trace, requests, reads,
                   weights_store, asset_store, zip, loaded>>

\* save_weights_only, lines 261-273: up to the call of _save_state.
\* h5py.File(filepath, "w") creates the file; with h5py missing the name
\* h5py is None and the attribute access fails.
SaveWeightsOnlyBegin(filepath, h5py) ==
    /\ pc = "idle"
    /\ outcome = <<>>
    /\ IF ~EndsWith(filepath, ".weights.h5")
       THEN WeightsOnlyRaises("save_weights_only", filepath, FALSE, "ValueError")
       ELSE IF ~h5py
       THEN WeightsOnlyRaises("save_weights_only", filepath, FALSE, "AttributeError")
       ELSE /\ pc' = "save_walk"
            /\ op' = OpRecord("save_weights_only", filepath, "h5", flag, TRUE,
                               FALSE, graph.attr)
            /\ zip' = [exists |-> TRUE, bad_zip_file |-> FALSE, members |-> {},
                       weights |-> EmptyH5]
            /\ weights_store' = H5IOStore("w", EmptyH5)
            /\ asset_store' = NoStore
            /\ agenda' = <<RootCall>>
            /\ visited' = {}
            /\ UNCHANGED <<graph, flag, trace, requests, reads, loaded, outcome>>

\* The end of save_weights_only (line 274).  `close_raises`:
\* weights_store.close() fails.
SaveWeightsOnlyEnd(close_raises) ==
    /\ pc = "save_walk"
    /\ op.name = "save_weights_only"
    /\ agenda = <<>>
    /\ IF close_raises
       THEN /\ WalkRaises("CloseError", TRUE)
            /\ UNCHANGED <<graph, op, visited, trace, requests, reads,
                           weights_store, asset_store, zip, loaded>>
       ELSE /\ pc' = "idle"
            /\ weights_store' = [weights_store EXCEPT !.closed = TRUE]
            /\ zip' = [zip EXCEPT !.weights = weights_store.h5_file]
            /\ outcome' = Append(outcome,
                  Outcome("save_weights_only", op.filepath, "h5", TRUE,
                          "none", FALSE, flag, flag))
            /\ UNCHANGED <<graph, op, flag, agenda, visited, trace, requests,
                           reads, asset_store, loaded>>

\* load_weights_only, lines 282-300: up to the call of _load_state on the
\* model it is given.  With a filepath of neither extension no branch
\* binds weights_store, and naming it at line 296 fails.  With h5py
\* missing H5IOStore.__init__ fails at h5py.File: for a .weights.h5 path
\* before anything looks for the file (line 520), for a .keras path after
\* the archive and its member were opened (line 518).
LoadWeightsOnlyBegin(filepath, h5py) ==
    /\ pc = "idle"
    /\ Len(outcome) = 1
    /\ ~outcome[1].fault
    /\ IF ~EndsWith(filepath, ".weights.h5") /\ ~EndsWith(filepath, ".keras")
       THEN WeightsOnlyRaises("load_weights_only", filepath, FALSE, "UnboundLocalError")
       ELSE IF EndsWith(filepath, ".weights.h5") /\ ~h5py
       THEN WeightsOnlyRaises("load_weights_only", filepath, FALSE, "AttributeError")
       ELSE IF ~FileExists(filepath)
       THEN WeightsOnlyRaises("load_weights_only", filepath, TRUE, "FileNotFoundError")
       ELSE IF /\ EndsWith(filepath, ".keras")
               /\ (_VARS_FNAME \o ".h5") \notin zip.members
       THEN WeightsOnlyRaises("load_weights_only", filepath, TRUE, "KeyError")
       ELSE IF ~h5py
       THEN WeightsOnlyRaises("load_weights_only", filepath, FALSE, "AttributeError")
       ELSE /\ pc' = "load_walk"
            /\ \E order \in SetOrders(graph.attr) :
                  op' = OpRecord("load_weights_only", filepath, "h5", flag, TRUE,
                                 FALSE, Recreated(graph.attr, order))
            /\ loaded' = [n \in Nodes |-> FreshState]
            /\ weights_store' = H5IOStore("r", zip.weights)
            /\ asset_store' = NoStore
            /\ agenda' = <<RootCall>>
            /\ visited' = {}
            /\ UNCHANGED <<graph, flag, trace, requests, reads, zip, outcome>>

\* The end of load_weights_only (lines 301-304).  `close_raises`:
\* weights_store.close() fails.
LoadWeightsOnlyEnd(close_raises) ==
    /\ pc = "load_walk"
    /\ op.name = "load_weights_only"
    /\ agenda = <<>>
    /\ IF close_raises
       THEN /\ WalkRaises("CloseError", TRUE)
            /\ UNCHANGED <<graph, op, visited, trace, requests, reads,
                           weights_store, asset_store, zip, loaded>>
       ELSE /\ pc' = "idle"
            /\ weights_store' = [weights_store EXCEPT !.closed = TRUE]
            /\ outcome' = Append(outcome,
                  Outcome("load_weights_only", op.filepath, "h5", TRUE,
                          "none", FALSE, flag, flag))
            /\ UNCHANGED <<graph, op, flag, agenda, visited, trace, requests,
                           reads, asset_store, zip, loaded>>

NextOps ==
    \/ \E filepath \in OpsFilepaths, weights_format \in WeightsFormats,
          h5py \in BOOLEAN, built \in BOOLEAN,
          fault \in {"none", "serialize", "zipfile"} :
          SaveModelBegin(filepath, weights_format, h5py, built, fault)
    \/ \E filepath \in OpsFilepaths, h5py \in BOOLEAN :
          SaveWeightsOnlyBegin(filepath, h5py)
    \/ \E hook_raises \in BOOLEAN : SaveState(hook_raises)
    \/ \E close_raises \in BOOLEAN : SaveModelEnd(close_raises)
    \/ \E close_raises \in BOOLEAN : SaveWeightsOnlyEnd(close_raises)
    \/ \E filepath \in OpsFilepaths, h5py \in BOOLEAN,
          fault \in {"none", "deserialize"} :
          LoadModelBegin(filepath, h5py, fault)
    \/ \E filepath \in OpsFilepaths, h5py \in BOOLEAN :
          LoadWeightsOnlyBegin(filepath, h5py)
    \/ \E hook_raises \in BOOLEAN : LoadState(hook_raises)
    \/ \E close_raises \in BOOLEAN : LoadModelEnd(close_raises)
    \/ \E close_raises \in BOOLEAN : LoadWeightsOnlyEnd(close_raises)

SpecOps == InitOps /\ [][NextOps]_vars

(***************************************************************************)
(* The weights stores on their own: a store is opened for writing, hooks   *)
(* write at some paths, the store is closed and opened again for reading,  *)
(* and locations are fetched.                                              *)
(***************************************************************************)
MaxMakes == 2

StorePaths == {<<>>, <<"a">>, <<"a", "b">>, <<"layers", "foo">>}

InitStore ==
    /\ graph = RootGraph(AllFoo, NoAttrs)
    /\ pc = "store_w"
    /\ op = NoOp
    /\ flag = FALSE
    /\ agenda = <<>>
    /\ visited = {}
    /\ trace = [save |-> <<>>, load |-> <<>>]
    /\ requests = [save |-> <<>>, load |-> <<>>]
    /\ reads = {}
    /\ weights_store \in {H5IOStore("w", EmptyH5), NpzIOStore("w", <<>>)}
    /\ asset_store = NoStore
    /\ zip = NoZip
    /\ loaded = [n \in Nodes |-> FreshState]
    /\ outcome = <<>>

\* make(path) followed by a hook writing the state of node n there.
StoreMake(path, n) ==
    /\ pc = "store_w"
    /\ Len(requests.save) < MaxMakes
    /\ LET made == WeightsMake(weights_store, path) IN
       /\ weights_store' = IF made.exc = "none"
                           THEN WeightsWrite(made.store, made.loc, NodeState(n))
                           ELSE weights_store
       /\ requests' = [requests EXCEPT !.save =
             Append(@, [store |-> "weights", node |-> n, path |-> path])]
       /\ outcome' = <<[name |-> "make", path |-> path, exc |-> made.exc,
                        value |-> EmptyMapping]>>
    /\ UNCHANGED <<graph, pc, op, flag, agenda, visited, trace, reads,
                   asset_store, zip, loaded>>

\* close() of the store written, then __init__ in mode "r" on what it wrote
\* (lines 534-539 and 513-520; lines 580-589 and 555-562).
StoreReopen ==
    /\ pc = "store_w"
    /\ pc' = "store_r"
    /\ weights_store' =
          IF weights_store.cls = "H5IOStore"
          THEN H5IOStore("r", weights_store.h5_file)
          ELSE NpzIOStore("r", NpzSaved(weights_store.contents))
    /\ outcome' = <<>>
    /\ UNCHANGED <<graph, op, flag, agenda, visited, trace, requests, reads,
                   asset_store, zip, loaded>>

\* get(path) on the store opened for reading.
StoreGet(path) ==
    /\ pc = "store_r"
    /\ LET got == WeightsGet(weights_store, path) IN
       outcome' = <<[name |-> "get", path |-> path, exc |-> got.exc,
                     value |-> got.value]>>
    /\ UNCHANGED <<graph, pc, op, flag, agenda, visited, trace, requests,
                   reads, weights_store, asset_store, zip, loaded>>

NextStore ==
    \/ \E path \in StorePaths, n \in Nodes : StoreMake(path, n)
    \/ StoreReopen
    \/ \E path \in StorePaths : StoreGet(path)

SpecStore == InitStore /\ [][NextStore]_vars

(***************************************************************************)
(* The two weights stores side by side: an H5IOStore and an NpzIOStore are *)
(* opened for writing and driven by the same calls, as the same walk would *)
(* drive either: the root location is made first, then locations below     *)
(* it; both are closed and opened again for reading, and the same          *)
(* locations are fetched from both.                                        *)
(***************************************************************************)
\* How one call on a store ended: the exception ("none" when it returned)
\* and the value returned.
StoreResult(name, path, exc, value) ==
    [name |-> name, path |-> path, exc |-> exc, value |-> value]

InitFormats ==
    /\ graph = RootGraph(AllFoo, NoAttrs)
    /\ pc = "pair_w"
    /\ op = NoOp
    /\ flag = FALSE
    /\ agenda = <<>>
    /\ visited = {}
    /\ trace = [save |-> <<>>, load |-> <<>>]
    /\ requests = [save |-> <<>>, load |-> <<>>]
    /\ reads = {}
    /\ weights_store = [h5 |-> H5IOStore("w", EmptyH5),
                        npz |-> NpzIOStore("w", <<>>)]
    /\ asset_store = NoStore
    /\ zip = NoZip
    /\ loaded = [n \in Nodes |-> FreshState]
    /\ outcome = <<>>

\* weights_store.make(path) and the _save_own_variables of node n writing
\* into the location, on both stores.
FormatsMake(path, n) ==
    /\ pc = "pair_w"
    /\ Len(requests.save) < MaxMakes
    /\ (path = <<>>) <=> (requests.save = <<>>)
    /\ LET h == H5Make(weights_store.h5, path)
           z == NpzMake(weights_store.npz, path)
       IN
       /\ weights_store' =
             [h5 |-> IF h.exc = "none"
                     THEN H5Write(h.store, h.loc, NodeState(n))
                     ELSE weights_store.h5,
              npz |-> IF z.exc = "none"
                      THEN NpzWrite(z.store, z.loc, NodeState(n))
                      ELSE weights_store.npz]
       /\ outcome' = <<StoreResult("make", path, h.exc, EmptyMapping),
                       StoreResult("make", path, z.exc, EmptyMapping)>>
    /\ requests' = [requests EXCEPT !.save =
          Append(@, [store |-> "weights", node |-> n, path |-> path])]
    /\ UNCHANGED <<graph, pc, op, flag, agenda, visited, trace, reads,
                   asset_store, zip, loaded>>

\* close() of both stores, then __init__ in mode "r" on what each wrote.
FormatsReopen ==
    /\ pc = "pair_w"
    /\ requests.save # <<>>
    /\ pc' = "pair_r"
    /\ weights_store' =
          [h5 |-> H5IOStore("r", weights_store.h5.h5_file),
           npz |-> NpzIOStore("r", NpzSaved(weights_store.npz.contents))]
    /\ outcome' = <<>>
    /\ UNCHANGED <<graph, op, flag, agenda, visited, trace, requests, reads,
                   asset_store, zip, loaded>>

\* weights_store.get(path) on both stores.
FormatsGet(path) ==
    /\ pc = "pair_r"
    /\ LET h == H5Get(weights_store.h5, path)
           z == NpzGet(weights_store.npz, path)
       IN  outcome' = <<StoreResult("get", path, h.exc, h.value),
                        StoreResult("get", path, z.exc, z.value)>>
    /\ UNCHANGED <<graph, pc, op, flag, agenda, visited, trace, requests,
                   reads, weights_store, asset_store, zip, loaded>>

NextFormats ==
    \/ \E path \in StorePaths, n \in Nodes : FormatsMake(path, n)
    \/ FormatsReopen
    \/ \E path \in StorePaths : FormatsGet(path)

SpecFormats == InitFormats /\ [][NextFormats]_vars

(***************************************************************************)
(* The asset store on its own: a DiskIOStore is built, with or without an  *)
(* archive and in either mode; hooks make directories and write files;     *)
(* directories are fetched; the store is closed; after a store that wrote, *)
(* one that reads may be built.                                            *)
(***************************************************************************)
\* The directories below the root directory a caller hands to a store
\* without archive.
RootDirs == {<<"a">>}

InitDisk ==
    /\ graph = RootGraph(AllFoo, NoAttrs)
    /\ pc = "disk_new"
    /\ op = NoOp
    /\ flag = FALSE
    /\ agenda = <<>>
    /\ visited = {}
    /\ trace = [save |-> <<>>, load |-> <<>>]
    /\ requests = [save |-> <<>>, load |-> <<>>]
    /\ reads = {}
    /\ weights_store = NoStore
    /\ asset_store = NoStore
    /\ zip = NoZip
    /\ loaded = [n \in Nodes |-> FreshState]
    /\ outcome = <<>>

\* DiskIOStore.__init__ (lines 456-471).  With an archive in mode "r" the
\* member root_path is extracted into the fresh temporary directory:
\* ZipFile.extract raises KeyError when no member has that name.
DiskOpen(archive, mode) ==
    /\ \/ pc = "disk_new"
       \/ pc = "disk_closed" /\ asset_store.mode = "w" /\ mode = "r"
    /\ (archive /\ mode = "r") => zip.exists
    /\ asset_store' = DiskIOStore(archive, mode)
    /\ IF archive /\ mode = "r" /\ _ASSETS_DIRNAME \notin zip.members
       THEN /\ pc' = "disk_failed"
            /\ outcome' = <<StoreResult("init", <<>>, "KeyError", PyNone)>>
            /\ zip' = zip
       ELSE /\ pc' = "disk_open"
            /\ outcome' = <<StoreResult("init", <<>>, "none", PyNone)>>
            /\ zip' = IF archive /\ mode = "w"
                      THEN [zip EXCEPT !.exists = TRUE] ELSE zip
    /\ UNCHANGED <<graph, op, flag, agenda, visited, trace, requests, reads,
                   weights_store, loaded>>

\* make(path) by the walk, followed by the node's _save_assets, which
\* writes a file there or writes nothing.
DiskStoreMake(path, writes) ==
    /\ pc = "disk_open"
    /\ asset_store.mode = "w"
    /\ Len(requests.save) < MaxMakes
    /\ asset_store' = IF writes
                      THEN DiskWrite(DiskMake(asset_store, path), path, AssetFile)
                      ELSE DiskMake(asset_store, path)
    /\ requests' = [requests EXCEPT !.save =
          Append(@, [store |-> "assets", node |-> Root, path |-> path])]
    /\ outcome' = <<StoreResult("make", path, "none", DirAt("tmp", path))>>
    /\ UNCHANGED <<graph, pc, op, flag, agenda, visited, trace, reads,
                   weights_store, zip, loaded>>

\* get(path).
DiskStoreGet(path) ==
    /\ pc = "disk_open"
    /\ LET got == DiskGet(asset_store, path) IN
       outcome' = <<StoreResult("get", path, got.exc, got.value)>>
    /\ UNCHANGED <<graph, pc, op, flag, agenda, visited, trace, requests,
                   reads, weights_store, asset_store, zip, loaded>>

\* close() (lines 489-495).  `copy_fails`: writing one of the staged files
\* into the archive raises; the files written before it are members of the
\* archive, and the statement that removes the temporary directory comes
\* after the copy and is not reached.
DiskStoreClose(copy_fails) ==
    /\ pc = "disk_open"
    /\ copy_fails => /\ asset_store.mode = "w"
                     /\ asset_store.archive
                     /\ asset_store.files # {}
    /\ pc' = "disk_closed"
    /\ IF copy_fails
       THEN /\ outcome' = <<StoreResult("close", <<>>, "OSError", PyNone)>>
            /\ \E written \in InterruptedWrites(<<>>, asset_store.files) :
                  zip' = [zip EXCEPT !.members = @ \cup
                            {JoinPath(<<_ASSETS_DIRNAME>> \o f) : f \in written}]
            /\ UNCHANGED asset_store
       ELSE /\ outcome' = <<StoreResult("close", <<>>, "none", PyNone)>>
            /\ zip' = IF asset_store.mode = "w" /\ asset_store.archive
                      THEN [zip EXCEPT !.members =
                              @ \cup _write_to_zip_recursively(asset_store)]
                      ELSE zip
            /\ asset_store' = DiskClose(asset_store)
    /\ UNCHANGED <<graph, op, flag, agenda, visited, trace, requests, reads,
                   weights_store, loaded>>

NextDisk ==
    \/ \E archive \in BOOLEAN, mode \in {"r", "w"} : DiskOpen(archive, mode)
    \/ \E path \in StorePaths, writes \in BOOLEAN : DiskStoreMake(path, writes)
    \/ \E path \in StorePaths : DiskStoreGet(path)
    \/ \E copy_fails \in BOOLEAN : DiskStoreClose(copy_fails)

SpecDisk == InitDisk /\ [][NextDisk]_vars

(***************************************************************************)
(* The flag under threads.  _SAVING_V3_ENABLED is a threading.local: each  *)
(* thread has its own `value` attribute, which only the importing thread   *)
(* has set (to False, line 51).  Two threads call save_model and           *)
(* load_model, also from inside the body of a call (a hook that saves).    *)
(* Here flag maps each thread's cell to "True", "False" or "unset"; op     *)
(* maps each thread to its stack of calls in progress; trace maps each     *)
(* thread to the value its own steps last gave its flag.                   *)
(***************************************************************************)
MaxDepth == 2

MainThread == "main"
Threads == {MainThread, "worker"}

\* The cell of the threading.local that thread t reads and writes.
FlagCellShared(t) == MainThread

FlagCell(t) == t

\* saving_v3_enabled(), lines 613-614, called in thread t.
saving_v3_enabled(t) == flag[FlagCell(t)] = "True"

PyBool(b) == IF b THEN "True" ELSE "False"

\* A call in progress: its saved value of the flag, and whether it has
\* entered its try block.
Frame(name, saving_v3_enabled_value, in_try) ==
    [name |-> name, saving_v3_enabled_value |-> saving_v3_enabled_value,
     in_try |-> in_try]

InitThreads ==
    /\ graph = RootGraph(AllFoo, NoAttrs)
    /\ pc = "threads"
    /\ op = [t \in Threads |-> <<>>]
    /\ flag = [t \in Threads |-> IF t = MainThread THEN "False" ELSE "unset"]
    /\ agenda = <<>>
    /\ visited = {}
    /\ trace = [t \in Threads |-> IF t = MainThread THEN "False" ELSE "unset"]
    /\ requests = [save |-> <<>>, load |-> <<>>]
    /\ reads = {}
    /\ weights_store = NoStore
    /\ asset_store = NoStore
    /\ zip = NoZip
    /\ loaded = [n \in Nodes |-> FreshState]
    /\ outcome = <<>>

\* Lines 138-139 of save_model, 198-199 of load_model, in thread t: the
\* flag as t sees it is saved and the flag is set.  load_model is in its
\* try block at once (line 201); save_model first serializes the model.
\* A call is made by the thread itself or from the body of a call of it.
ThreadEnter(t, name) ==
    /\ pc = "threads"
    /\ Len(op[t]) < MaxDepth
    /\ op[t] # <<>> => op[t][Len(op[t])].in_try
    /\ op' = [op EXCEPT ![t] = Append(@,
                 Frame(name, PyBool(saving_v3_enabled(t)), name = "load_model"))]
    /\ flag' = [flag EXCEPT ![FlagCell(t)] = "True"]
    /\ trace' = [trace EXCEPT ![t] = "True"]
    /\ UNCHANGED <<graph, pc, agenda, visited, requests, reads, weights_store,
                   asset_store, zip, loaded, outcome>>

\* Lines 141-149 of save_model: the config is serialized and the try block
\* is entered.
ThreadTry(t) ==
    /\ pc = "threads"
    /\ op[t] # <<>>
    /\ ~op[t][Len(op[t])].in_try
    /\ op' = [op EXCEPT ![t][Len(op[t])].in_try = TRUE]
    /\ UNCHANGED <<graph, pc, flag, agenda, visited, trace, requests, reads,
                   weights_store, asset_store, zip, loaded, outcome>>

\* Line 141 of save_model raising: the call is left before its try block,
\* and nothing restores the flag.
ThreadSerializeRaises(t) ==
    /\ pc = "threads"
    /\ op[t] # <<>>
    /\ ~op[t][Len(op[t])].in_try
    /\ op' = [op EXCEPT ![t] = SubSeq(@, 1, Len(@) - 1)]
    /\ UNCHANGED <<graph, pc, flag, agenda, visited, trace, requests, reads,
                   weights_store, asset_store, zip, loaded, outcome>>

\* The finally of lines 186-187 and 250-251, on return or on an exception
\* from inside the try block: the saved value is put back.
ThreadExit(t) ==
    /\ pc = "threads"
    /\ op[t] # <<>>
    /\ op[t][Len(op[t])].in_try
    /\ LET saved == op[t][Len(op[t])].saving_v3_enabled_value IN
       /\ flag' = [flag EXCEPT ![FlagCell(t)] = saved]
       /\ trace' = [trace EXCEPT ![t] = saved]
    /\ op' = [op EXCEPT ![t] = SubSeq(@, 1, Len(@) - 1)]
    /\ UNCHANGED <<graph, pc, agenda, visited, requests, reads, weights_store,
                   asset_store, zip, loaded, outcome>>

NextThreads ==
    \/ \E t \in Threads, name \in {"save_model", "load_model"} : ThreadEnter(t, name)
    \/ \E t \in Threads : ThreadTry(t)
    \/ \E t \in Threads : ThreadSerializeRaises(t)
    \/ \E t \in Threads : ThreadExit(t)

SpecThreads == InitThreads /\ [][NextThreads]_vars

(***************************************************************************)
(* Definitions the properties are stated with.                             *)
(***************************************************************************)
Count(seq, P(_)) == Cardinality({i \in 1..Len(seq) : P(seq[i])})
Last(seq) == seq[Len(seq)]
IsPrefix(a, b) == Len(a) <= Len(b) /\ SubSeq(b, 1, Len(a)) = a
Range(seq) == {seq[i] : i \in 1..Len(seq)}

\* An attribute name the walk must pass over.
SkipNamed(a) == a \in ATTR_SKIPLIST \/ (Len(a) >= 2 /\ SubSeq(a, 1, 2) = "__")

\* The attribute names of the model a walk must pass over, and the others.
SkipAttrs == {a \in AttrNames : SkipNamed(a)}
WalkedAttrs == AttrNames \ SkipAttrs

\* The trackables one step from node n: the values of its attributes that
\* are not to be skipped, and the elements of the containers of the given
\* kinds among them (for a mapping, its values).
Children(n, kinds) ==
    {v.n : v \in {graph.attr[n][a] : a \in WalkedAttrs}
                  \cap {Ref(m) : m \in Nodes}}
    \cup
    UNION {{e.n : e \in Range(graph.attr[n][a].vals) \cap {Ref(m) : m \in Nodes}} :
             a \in {x \in WalkedAttrs : /\ graph.attr[n][x].k = "cont"
                                       /\ graph.attr[n][x].kind \in kinds}}

RECURSIVE Closure(_, _)
Closure(S, kinds) ==
    LET T == S \cup UNION {Children(n, kinds) : n \in S}
    IN  IF T = S THEN S ELSE Closure(T, kinds)

\* The trackables reachable from the root.
Reachable(kinds) == Closure({Root}, kinds)
ReachableAll == Reachable({"list", "tuple", "set", "dict"})

\* The requests a walk made of the weights store.
WeightReqs(w) == SelectSeq(requests[w], LAMBDA r : r.store = "weights")

\* The operations so far ended without a failure from outside the module:
\* the calls were well-formed and no collaborator was made to fail.
Undisturbed ==
    \A i \in 1..Len(outcome) : outcome[i].usage /\ ~outcome[i].fault

\* The type-derived name of each class, computed once.
SnakeName == [c \in ClassNames |-> to_snake_case(c)]

\* The filepath has the extension: some tail of it is the extension.
HasExtension(filepath, ext) ==
    \E i \in 1..(Len(filepath) + 1) : SubSeq(filepath, i, Len(filepath)) = ext

\* The place of an attribute name in the enumeration order.
AttrIndex == [a \in AttrNames |-> CHOOSE i \in 1..Len(AttrOrder) : AttrOrder[i] = a]

\* The container without its elements that are not trackables.
OnlyTrackables(container) ==
    [container EXCEPT !.keys = SelectSeq(@, _is_keras_trackable),
                      !.vals = SelectSeq(@, _is_keras_trackable)]

SaveReturned == Len(outcome) >= 1 /\ outcome[1].exc = "none"

\* The attributes of the nodes of the model that walk w is over: the
\* saved model, or the one the load was given or built.
ModelOf(w) ==
    IF w = "load" /\ op.name \in {"load_model", "load_weights_only"}
    THEN op.model ELSE graph.attr

\* The value that corresponds to v when node n corresponds to pi[n].
RECURSIVE Image(_, _)
Image(pi, v) ==
    IF v.k = "ref" THEN Ref(pi[v.n])
    ELSE IF v.k = "cont"
    THEN [v EXCEPT !.vals = [i \in 1..Len(v.vals) |-> Image(pi, v.vals[i])]]
    ELSE v

\* The ways in which the loaded graph matches the saved one structurally:
\* root to root, node to node of the same class, every attribute holding
\* the corresponding value, containers element for element in iteration
\* order.  Two equal graphs match node for node.
Correspondences ==
    IF ModelOf("load") = graph.attr
    THEN {[n \in Nodes |-> n]}
    ELSE {pi \in Permutations(Nodes) :
            /\ pi[Root] = Root
            /\ \A n \in Nodes :
                  /\ graph.cls[pi[n]] = graph.cls[n]
                  /\ \A a \in AttrNames :
                        ModelOf("load")[pi[n]][a] = Image(pi, graph.attr[n][a])}

\* A request or an invocation of the save walk, as the load walk makes it
\* on the corresponding node.
RequestAt(pi, r) == [r EXCEPT !.node = pi[@]]
InvocationAt(pi, e) ==
    [e EXCEPT !.node = pi[@],
              !.via.owner = IF @ = 0 THEN 0 ELSE pi[@]]
SeqAt(F(_, _), pi, seq) == [i \in 1..Len(seq) |-> F(pi, seq[i])]
LoadReturned == Len(outcome) = 2 /\ outcome[2].exc = "none"

(***************************************************************************)
(* Properties.                                                             *)
(***************************************************************************)

\* C1: round trip.  After save_model with the h5 format and load_model,
\* neither disturbed from outside, every node reachable from the root
\* through trackable attributes and list/tuple attributes holds in the
\* loaded graph the numeric state its counterpart had when saved.
C1_RoundTrip ==
    (/\ Len(outcome) = 2
     /\ Undisturbed
     /\ outcome[1].weights_format = "h5")
    => \A n \in Reachable({"list", "tuple"}) : loaded[n] = NodeState(n)

\* C2: path symmetry.  However the loaded graph matches the saved one
\* structurally, the (node, path) pairs at which the load walk asks the
\* weights store for a location, and the invocations it makes, repeat
\* those of the save walk on the corresponding nodes in the same order;
\* when load_model returns, the two sequences are the same.
C2_PathSymmetry ==
    \A pi \in Correspondences :
        LET asked == SeqAt(RequestAt, pi, WeightReqs("save"))
            made == SeqAt(InvocationAt, pi, trace.save)
        IN  /\ IsPrefix(WeightReqs("load"), asked)
            /\ IsPrefix(trace.load, made)
            /\ LoadReturned =>
                  /\ WeightReqs("load") = asked
                  /\ trace.load = made

\* A load that returned after asking for the locations of three nodes, one
\* of them under a suffixed container name.
C2_Witness ==
    /\ LoadReturned
    /\ Len(WeightReqs("load")) >= 3
    /\ \E i \in 1..Len(trace.load) :
          /\ trace.load[i].via.kind = "elem"
          /\ ~trace.load[i].hit
          /\ Last(trace.load[i].path) = "foo_1"

\* C3: visit once.  Within one walk, the own-state hook of a node runs at
\* most once and each store is asked at most once for a location for it.
C3_VisitOnce ==
    \A w \in {"save", "load"} : \A n \in Nodes :
        /\ Count(trace[w], LAMBDA e : e.node = n /\ ~e.hit) <= 1
        /\ \A st \in {"weights", "assets"} :
              Count(requests[w], LAMBDA r : r.node = n /\ r.store = st) <= 1

\* Both walks are over, and one container held the same instance twice.
C3_Witness ==
    /\ LoadReturned
    /\ \E i, j \in 1..Len(trace.load) :
          /\ i < j
          /\ trace.load[i].node = trace.load[j].node
          /\ trace.load[i].via.kind = "elem"
          /\ trace.load[j].via.kind = "elem"
          /\ trace.load[j].hit
          /\ trace.save[j].hit

\* C4: cycle safety.  When save_model returns, every trackable reachable
\* from the root through attributes that are not skipped, directly or as
\* an element of a list, tuple, set or mapping, was visited exactly once.
C4_ReachableVisitedOnce ==
    SaveReturned =>
        \A n \in ReachableAll :
            Count(trace.save, LAMBDA e : e.node = n /\ ~e.hit) = 1

\* C5: container naming.  The element of a container that is the k-th
\* trackable (from 0, in iteration order) of its type-derived name n is
\* addressed as n when k = 0 and as n_k otherwise.
C5_NamingRule ==
    \A w \in {"save", "load"} : \A i \in 1..Len(trace[w]) :
        LET e == trace[w][i] IN
        e.via.kind = "elem" =>
            LET items == PyIter(ModelOf(w)[e.via.owner][e.via.attr])
                n == SnakeName[graph.cls[e.node]]
                k == Cardinality({j \in 1..(e.via.pos - 1) :
                        /\ items[j].k = "ref"
                        /\ SnakeName[graph.cls[items[j].n]] = n})
                name == IF k = 0 THEN n ELSE n \o "_" \o ToString(k)
            IN  /\ items[e.via.pos] = Ref(e.node)
                /\ \E o \in 1..Len(trace[w]) :
                      /\ trace[w][o].node = e.via.owner
                      /\ ~trace[w][o].hit
                      /\ e.path = trace[w][o].path \o <<e.via.attr, name>>

\* Three elements of one type name were addressed in one container: the
\* first bare, the second and third with the suffixes 1 and 2.
C5_Witness ==
    \E i, j, l \in 1..Len(trace.load) :
        /\ {trace.load[i].via.kind, trace.load[j].via.kind, trace.load[l].via.kind}
              = {"elem"}
        /\ trace.load[i].via.pos = 1 /\ Last(trace.load[i].path) = "foo"
        /\ trace.load[j].via.pos = 2 /\ Last(trace.load[j].path) = "foo_1"
        /\ trace.load[l].via.pos = 3 /\ Last(trace.load[l].path) = "foo_2"

\* C6: collision-free addressing.  Within one walk no two distinct nodes
\* are given the same logical path in a store.
C6_CollisionFree ==
    \A w \in {"save", "load"} : \A i, j \in 1..Len(requests[w]) :
        (/\ requests[w][i].store = requests[w][j].store
         /\ requests[w][i].path = requests[w][j].path)
        => requests[w][i].node = requests[w][j].node

\* C7: mapping containers.  When save_model returns, every trackable that
\* is a value of a mapping held by a non-skipped attribute of a visited
\* node was visited.
C7_MappingValuesVisited ==
    SaveReturned =>
        \A n \in {trace.save[i].node : i \in 1..Len(trace.save)} :
        \A a \in WalkedAttrs :
            (graph.attr[n][a].k = "cont" /\ graph.attr[n][a].kind = "dict") =>
                \A v \in Range(graph.attr[n][a].vals) \cap {Ref(m) : m \in Nodes} :
                    \E i \in 1..Len(trace.save) : trace.save[i].node = v.n

\* C8: skip list.  No attribute named in ATTR_SKIPLIST or starting with two
\* underscores is read, none contributes a path segment, and no node is
\* visited that only such an attribute leads to.
C8_SkipList ==
    LET R == ReachableAll IN
    /\ \A r \in reads : r.attr \notin SkipAttrs
    /\ \A w \in {"save", "load"} : \A i \in 1..Len(trace[w]) :
          LET e == trace[w][i] IN
          /\ \A j \in 1..Len(e.path) : e.src[j] = "attr" => e.path[j] \notin SkipAttrs
          /\ e.node \in R

\* Both walks are over on a graph whose root holds, in a skipped attribute
\* only, a trackable that was therefore never visited.
C8_Witness ==
    /\ LoadReturned
    /\ \E a \in SkipAttrs :
          /\ graph.attr[Root][a].k = "ref"
          /\ graph.attr[Root][a].n \notin ReachableAll
    /\ Len(trace.load) >= 2

\* C9: missing-state tolerance.  get(path) on a store opened for reading,
\* for a path at which nothing was written, returns the empty mapping and
\* does not raise.
C9_MissingStateTolerance ==
    (/\ pc = "store_r"
     /\ outcome # <<>>
     /\ \A i \in 1..Len(requests.save) : requests.save[i].path # outcome[1].path)
    => (outcome[1].exc = "none" /\ outcome[1].value = EmptyMapping)

\* C10: scoped flag.  When save_model or load_model has returned or raised,
\* the flag has the value it had before the call.
C10_FlagRestored ==
    (pc = "idle" /\ Len(outcome) >= 1) => flag = Last(outcome).before

\* C11: guaranteed release.  When a top-level operation has returned or
\* raised, every store it opened is closed and the temporary directory of
\* its asset store is gone.
C11_Released ==
    (pc = "idle" /\ Len(outcome) >= 1) =>
        /\ weights_store.cls # "None" => weights_store.closed
        /\ asset_store.cls # "None" =>
              (asset_store.closed /\ ~asset_store.tmp_dir)

\* C13: usage errors fail before any archive exists.  When save_model
\* raised for a wrong extension, an unsupported weights_format or a missing
\* h5py, no archive file was created.
C13_UsageErrorLeavesNoArchive ==
    (/\ Len(outcome) >= 1
     /\ outcome[1].name = "save_model"
     /\ ~outcome[1].usage)
    => ~zip.exists

\* C15: asset round trip.  When save_model returned after a node's
\* _save_assets wrote a file at its path, and load_model of that archive
\* returned undisturbed, the archive holds the file under the assets member
\* and the load walk asked an asset store for the directory of that path.
C15_AssetRoundTrip ==
    (/\ LoadReturned
     /\ Undisturbed)
    => \A i \in 1..Len(requests.save) :
          LET r == requests.save[i] IN
          (r.store = "assets" /\ WritesAssets(r.node)) =>
             /\ JoinPath(<<_ASSETS_DIRNAME>> \o r.path \o <<AssetFile>>) \in zip.members
             /\ \E j \in 1..Len(requests.load) :
                   requests.load[j] = r

\* C12: file-store close cleanup.  After DiskIOStore.close() has returned
\* or raised, the store's temporary directory does not exist.
C12_CloseRemovesTmpDir ==
    pc = "disk_closed" => ~asset_store.tmp_dir

\* C16: standalone file store in read mode.  A DiskIOStore built without
\* an archive in mode "r" has made no temporary directory, and get(path)
\* answers from the caller's root directory: the root for the empty path,
\* root/path when that directory exists, None when it does not.
C16_StandaloneRead ==
    (/\ pc = "disk_open"
     /\ asset_store.mode = "r"
     /\ ~asset_store.archive)
    => /\ ~asset_store.tmp_dir
       /\ outcome[1].name = "get" =>
             /\ outcome[1].exc = "none"
             /\ outcome[1].value =
                   IF outcome[1].path = <<>> \/ outcome[1].path \in RootDirs
                   THEN DirAt("root", outcome[1].path)
                   ELSE PyNone

\* C14: extension validation.  save_model and load_model called with a
\* filepath not ending in .keras, and save_weights_only with one not
\* ending in .weights.h5, raise ValueError as a usage error and their walk
\* makes no invocation; a save_model of a model that is not built, with
\* well-formed arguments and no collaborator failing, emits the warning and
\* returns with the weights in the archive.
C14_ExtensionValidation ==
    /\ \A i \in 1..Len(outcome) :
          LET o == outcome[i]
              walk == IF i = 1 THEN trace.save ELSE trace.load
          IN  (\/ /\ o.name \in {"save_model", "load_model"}
                  /\ ~HasExtension(o.filepath, ".keras")
               \/ /\ o.name = "save_weights_only"
                  /\ ~HasExtension(o.filepath, ".weights.h5"))
              => (o.exc = "ValueError" /\ ~o.usage /\ walk = <<>>)
    /\ (/\ pc = "idle"
        /\ Len(outcome) = 1
        /\ op.name = "save_model"
        /\ ~op.built
        /\ outcome[1].usage
        /\ ~outcome[1].fault)
       => /\ op.warned
          /\ outcome[1].exc = "none"
          /\ {_CONFIG_FILENAME, _METADATA_FILENAME,
               _VARS_FNAME \o "." \o op.weights_format} \subseteq zip.members
          /\ {trace.save[i].node : i \in 1..Len(trace.save)} = ReachableAll

\* A model that is not built was saved with a warning, and a load_model of
\* a filepath without the extension then raised.
C14_Witness ==
    /\ Len(outcome) = 2
    /\ op.name = "save_model"
    /\ ~op.built
    /\ op.warned
    /\ outcome[1].exc = "none"
    /\ outcome[2].name = "load_model"
    /\ outcome[2].filepath = "model.bin"
    /\ outcome[2].exc = "ValueError"

\* C17: format equivalence.  Driven by the same calls, the H5IOStore and
\* the NpzIOStore end every call the same way: both return or both raise,
\* and get hands back the same contents from both.
C17_FormatEquivalence ==
    (pc \in {"pair_w", "pair_r"} /\ outcome # <<>>)
    => /\ outcome[1].exc = outcome[2].exc
       /\ outcome[1].value = outcome[2].value

\* C18: first-encounter addressing.  In each walk the first invocation for
\* a node is the one that handles it and every later one returns at once;
\* every store location requested for the node is at the path of that
\* first invocation; and the order is depth first in enumeration order:
\* between the invocation that handles a node and any call its loop makes,
\* only calls below that node's path occur, and the calls of one loop come
\* in the order of the attributes and of the elements.
C18_FirstEncounter ==
    \A w \in {"save", "load"} :
        LET t == trace[w] IN
        /\ \A i, j \in 1..Len(t) :
              (i < j /\ t[i].node = t[j].node) => t[j].hit
        /\ \A i \in 1..Len(t) :
              t[i].hit => \E f \in 1..(i - 1) : t[f].node = t[i].node /\ ~t[f].hit
        /\ \A r \in 1..Len(requests[w]) :
              \E f \in 1..Len(t) :
                  /\ t[f].node = requests[w][r].node
                  /\ ~t[f].hit
                  /\ t[f].path = requests[w][r].path
        /\ \A j \in 1..Len(t) :
              t[j].via.kind # "root" =>
                 \E o \in 1..(j - 1) :
                    /\ t[o].node = t[j].via.owner
                    /\ ~t[o].hit
                    /\ \A k \in (o + 1)..(j - 1) :
                          /\ Len(t[k].path) > Len(t[o].path)
                          /\ IsPrefix(t[o].path, t[k].path)
                          /\ t[k].via.owner = t[j].via.owner =>
                                \/ AttrIndex[t[k].via.attr] < AttrIndex[t[j].via.attr]
                                \/ /\ t[k].via.attr = t[j].via.attr
                                   /\ t[k].via.pos < t[j].via.pos

\* Both walks are over, and a node was handled at a path two segments
\* deep although a later attribute of the root holds it directly.
C18_Witness ==
    /\ LoadReturned
    /\ \E i, j \in 1..Len(trace.load) :
          /\ i < j
          /\ trace.load[i].node = trace.load[j].node
          /\ ~trace.load[i].hit
          /\ trace.load[j].hit
          /\ Len(trace.load[i].path) = 2
          /\ Len(trace.load[j].path) = 1
          /\ trace.load[j].via.owner = Root

\* C19: non-trackable container elements have no effect.  For every node
\* a walk handled and every container with such an element that it holds
\* in an attribute the walk reads, the calls made for the elements go, in
\* order, to the nodes and paths that the walk of the same container
\* stripped of its non-trackable elements yields: no call comes from a
\* plain value or from inside a nested container, and no name is shifted
\* by one.
C19_NonTrackablesNoEffect ==
    \A w \in {"save", "load"} : \A o \in 1..Len(trace[w]) :
        LET t == trace[w]
            n == t[o].node
        IN  ~t[o].hit =>
            \A a \in WalkedAttrs :
                (/\ IsContainer(ModelOf(w)[n][a])
                 /\ OnlyTrackables(ModelOf(w)[n][a]) # ModelOf(w)[n][a]) =>
                    LET made == SelectSeq(t, LAMBDA e :
                                    /\ e.via.kind = "elem"
                                    /\ e.via.owner = n
                                    /\ e.via.attr = a)
                        bare == OnlyTrackables(ModelOf(w)[n][a])
                        path == gfile_join(t[o].path, a)
                        want == IF w = "save"
                                THEN _save_container_state(bare, 1, <<>>, path,
                                         Append(t[o].src, "attr"), n, a)
                                ELSE _load_container_state(bare, 1, <<>>, path,
                                         Append(t[o].src, "attr"), n, a)
                    IN  /\ Len(made) <= Len(want)
                        /\ \A k \in 1..Len(made) :
                              /\ made[k].node = want[k].node
                              /\ made[k].path = want[k].path
                        /\ (w = "save" /\ SaveReturned) => Len(made) = Len(want)
                        /\ (w = "load" /\ LoadReturned) => Len(made) = Len(want)

\* Both walks are over on a list that holds a plain value, a trackable, a
\* nested list of trackables and the trackable again: the trackable was
\* addressed as foo and foo_1, and the node that only the nested list
\* holds was not visited.
C19_Witness ==
    /\ LoadReturned
    /\ \E a \in WalkedAttrs :
          /\ IsContainer(graph.attr[Root][a])
          /\ Len(graph.attr[Root][a].vals) = 4
          /\ graph.attr[Root][a].vals[1].k = "plain"
          /\ graph.attr[Root][a].vals[3].k = "cont"
          /\ \E i, j \in 1..Len(trace.load) :
                /\ trace.load[i].via = ViaElem(Root, a, 2)
                /\ Last(trace.load[i].path) = "foo"
                /\ trace.load[j].via = ViaElem(Root, a, 4)
                /\ Last(trace.load[j].path) = "foo_1"
    /\ \A i \in 1..Len(trace.load) : trace.load[i].node # NumNodes

\* C20: flag isolation.  What saving_v3_enabled() returns in a thread is
\* what that thread's own steps last made it (False when it made nothing),
\* whatever the other thread does; it is on in a thread for as long as the
\* thread has a call in progress; and a nested call has saved, and puts
\* back, the value on.
C20_FlagIsolation ==
    \A t \in Threads :
        /\ saving_v3_enabled(t) = (trace[t] = "True")
        /\ op[t] # <<>> => saving_v3_enabled(t)
        /\ \A i \in 2..Len(op[t]) : op[t][i].saving_v3_enabled_value = "True"

\* The main thread is in the body of its outer call after a nested call
\* has put the flag back, while the worker, which has finished a call of
\* its own, sees the flag off.
C20_Witness ==
    /\ Len(op[MainThread]) = 2
    /\ op[MainThread][2].in_try
    /\ op["worker"] = <<>>
    /\ trace["worker"] = "False"
    /\ ~saving_v3_enabled("worker")
    /\ saving_v3_enabled(MainThread)

\* The walked attributes of node n whose read raises.
RaisingAttrs(n) == {a \in WalkedAttrs : graph.attr[n][a].k = "raise"}

\* Walk w ran the own-state hook of node n.
Handled(w, n) == \E i \in 1..Len(trace[w]) : trace[w][i].node = n /\ ~trace[w][i].hit

\* Walk w made the call with the given origin.
Reached(w, via) == \E i \in 1..Len(trace[w]) : trace[w][i].via = via

\* C21: unreadable attributes are skipped.  In the save walk and in the
\* load walk, no invocation and no store request comes from an attribute
\* whose read raises; save_model with the h5 format and the load_model
\* after it, when nothing else disturbs them, return without an exception
\* although such an attribute was read; and once a walk has returned,
\* every other attribute of the node that holds a trackable, and every
\* trackable element of a container it holds, has had its call, and every
\* node reachable from the root has been visited.
C21_UnreadableSkipped ==
    LET raising == {n \in Nodes : RaisingAttrs(n) # {}} IN
    raising # {} =>
    /\ (Undisturbed /\ Len(outcome) >= 1 /\ outcome[1].weights_format = "h5") =>
          \A i \in 1..Len(outcome) : outcome[i].exc = "none"
    /\ \A w \in {"save", "load"} :
          /\ \A i \in 1..Len(trace[w]) :
                trace[w][i].via.kind # "root" =>
                   trace[w][i].via.attr \notin RaisingAttrs(trace[w][i].via.owner)
          /\ \A i \in 1..Len(requests[w]) :
                \A n \in raising, a \in WalkedAttrs, j \in 1..Len(trace[w]) :
                   (/\ a \in RaisingAttrs(n)
                    /\ trace[w][j].node = n
                    /\ ~trace[w][j].hit) =>
                      ~IsPrefix(gfile_join(trace[w][j].path, a), requests[w][i].path)
          /\ (IF w = "save" THEN SaveReturned ELSE LoadReturned) =>
                /\ \A n \in raising :
                      Handled(w, n) =>
                        \A a \in WalkedAttrs :
                          LET v == ModelOf(w)[n][a] IN
                          /\ _is_keras_trackable(v) => Reached(w, ViaAttr(n, a))
                          /\ IsContainer(v) =>
                                \A k \in 1..Len(PyIter(v)) :
                                   _is_keras_trackable(PyIter(v)[k]) =>
                                      Reached(w, ViaElem(n, a, k))
                /\ \A n \in Reachable({"list", "tuple", "set"}) : Handled(w, n)

\* load_model has returned on a graph in which a node other than the root
\* has an attribute that raises, sorted before an attribute that holds a
\* trackable: getattr was executed on the former, and the trackable of the
\* latter was visited by both walks.
C21_Witness ==
    /\ LoadReturned
    /\ \E n \in Nodes \ {Root}, a \in WalkedAttrs, b \in WalkedAttrs :
          /\ a \in RaisingAttrs(n)
          /\ AttrIndex[a] < AttrIndex[b]
          /\ _is_keras_trackable(graph.attr[n][b])
          /\ [walk |-> "save", node |-> n, attr |-> a] \in reads
          /\ [walk |-> "load", node |-> n, attr |-> a] \in reads
          /\ Handled("save", graph.attr[n][b].n)
          /\ Handled("load", graph.attr[n][b].n)

\* The number of the trackable elements of the type-derived name `name`
\* before position pos of the sequence of elements.
Earlier(items, pos, name) ==
    Cardinality({j \in 1..(pos - 1) :
        /\ _is_keras_trackable(items[j])
        /\ SnakeName[graph.cls[items[j].n]] = name})

\* C22: an already-visited element consumes a name.  When a walk comes to
\* a container element that was visited before, it requests no store
\* location for it (and none at all at its path when the container holds
\* one type name only), and every later element of the same type-derived
\* name in that container is addressed with the suffix that counts the
\* visited element too; the load walk makes the same invocation at the
\* same place as the save walk.
C22_VisitedConsumesName ==
    \A w \in {"save", "load"} : \A i \in 1..Len(trace[w]) :
        LET e == trace[w][i] IN
        (e.via.kind = "elem" /\ e.hit) =>
            LET items == PyIter(ModelOf(w)[e.via.owner][e.via.attr])
                name == SnakeName[graph.cls[e.node]]
                names == {SnakeName[graph.cls[items[j].n]] :
                             j \in {x \in 1..Len(items) : _is_keras_trackable(items[x])}}
            IN  /\ \A r \in 1..Len(requests[w]) :
                      /\ ~(requests[w][r].node = e.node /\ requests[w][r].path = e.path)
                      /\ names = {name} => requests[w][r].path # e.path
                /\ \A l \in 1..Len(trace[w]) :
                      LET f == trace[w][l] IN
                      (/\ f.via.kind = "elem"
                       /\ f.via.owner = e.via.owner
                       /\ f.via.attr = e.via.attr
                       /\ f.via.pos > e.via.pos
                       /\ SnakeName[graph.cls[f.node]] = name) =>
                          /\ Earlier(items, f.via.pos, name) >= 1
                          /\ Last(f.path) =
                                name \o "_" \o ToString(Earlier(items, f.via.pos, name))
                /\ w = "load" => (i <= Len(trace.save) /\ trace.save[i] = e)

\* load_model has returned on a list [a, a, b] of one type name: in both
\* walks the second element was found already visited at foo_1, the third
\* was stored at foo_2, and nothing was requested at foo_1.
C22_Witness ==
    /\ LoadReturned
    /\ \A w \in {"save", "load"} :
          /\ \E i, l \in 1..Len(trace[w]) :
                /\ trace[w][i].via.kind = "elem" /\ trace[w][i].via.pos = 2
                /\ trace[w][i].hit /\ Last(trace[w][i].path) = "foo_1"
                /\ trace[w][l].via = [trace[w][i].via EXCEPT !.pos = 3]
                /\ ~trace[w][l].hit /\ Last(trace[w][l].path) = "foo_2"
                /\ trace[w][l].node # trace[w][i].node
          /\ \A r \in 1..Len(requests[w]) : Last(<<"">> \o requests[w][r].path) # "foo_1"

====
